---- MODULE Spec2Model ----
(***************************************************************************)
(* Client session / streaming engine of the DSA Mentor front end.          *)
(*                                                                         *)
(* The repository holds three generations of the authentication manager:   *)
(*   impl = 1  unnamed/part_004 lines 1-1199    (retry + restoreState)       *)
(*   impl = 2  unnamed/part_004 lines 1201-2594 (backupSession/restoreSession)*)
(*   impl = 3  app/static/js/app-auth.js        (reload on change)          *)
(* One execution context (tab) is modelled; the other tabs and the server  *)
(* are the environment.                                                    *)
(***************************************************************************)
EXTENDS Integers, Sequences, FiniteSets, TLC

(* ---------------- bounds of the model ---------------- *)
MaxInFlight == 2      \* verification rounds simultaneously awaiting a response
MaxFailures == 2      \* sessionMetrics.authFailures is counted up to this value
MaxTimers   == 1      \* deferred forced checks queued by the 'online' handler
MaxLoads    == 3      \* page loads of one context followed in the restore runs
MaxSends    == 2      \* sendMessage invocations that have not reached their finally
MaxEvents   == 3      \* records of one response stream
MaxBatch    == 2      \* records completed by one reader.read()
MaxTasks    == 3      \* StreamingWriter.writeText calls
MaxLen      == 2      \* characters of a revealed text
MaxAttempts == 3      \* largest maxRetries a caller passes to the retry executor
MaxScreens  == 4      \* the page's scroll range, in halves of the scroll threshold
MaxPending  == 2      \* scrollToBottom timers of onNewContent not yet fired
MaxBytes    == 8      \* characters of one response body fed to the frame decoder
MaxRead     == 2      \* characters one reader.read() delivers
MaxInbox    == 2      \* storage events and reload timers pending in one context
MaxStreak   == 4      \* verification failures followed within one page load
MaxRecords  == 3      \* records in one streamed response body
StartTime   == 100000000   \* Date.now() at page load, in ms

(* ---------------- program constants ---------------- *)
ActiveInterval == 120000      \* 2 minutes
IdleInterval   == 300000      \* 5 minutes
LegacyInterval == 30000       \* app-auth.js
BackupMaxAge   == 3600000     \* restoreState: 1 hour
SessionMaxAge  == 86400000    \* restoreSession: 24 * 60 * 60 * 1000
ScrollThreshold == 100        \* ScrollManager.scrollThreshold

VARIABLES
    impl,             \* which AuthManager implementation the page loaded
    booted,           \* AuthManager.init() / initialize() has run
    initCheckPending, \* impl 1: setTimeout(checkAuthentication, 100) not yet fired
    sharedView,       \* body[data-shared-view] with a shared thread id
    online,           \* navigator.onLine
    appOnline,        \* AppState.isOnline (impl 1) / connectionStatus = 'online' (impl 2)
    hidden,           \* document.hidden
    serverUser,       \* AppState.serverUser
    timer,            \* AppState.authCheckInterval: 0 = null, else its period in ms
    inProgress,       \* AppState.authCheckInProgress
    inflight,         \* verification rounds awaiting their response
    failures,         \* AppState.sessionMetrics.authFailures
    checkedOnce,      \* impl 2: AppState.lastAuthCheck # 0
    visListener,      \* impl 2: startPeriodicAuthCheck registered its visibility listener
    pendingForced,    \* impl 1: setTimeout(() => performAuthCheck(true), 1000) queued
    logoutInFlight,   \* impl 1: POST /auth/logout awaiting its response
    storeUser,        \* localStorage dsa_user_data: <<>> or <<user>>
    storeBackup,      \* localStorage dsa_session_backup: <<>> or <<backup>>
    threadId,         \* AppState.currentThreadId
    loads,            \* page loads of this context so far (the current one included)
    inputDisabled,    \* #chatInput.disabled
    sendDisabled,     \* #sendButton.disabled
    now,              \* Date.now()
    chat,             \* which chat script the page loaded: "app-chat" or "part_005"
    hasText,          \* chatInput.value.trim() is non-empty
    isSending,        \* MessageSender.isSending
    awaiting,         \* sendMessage invocations awaiting the response of their request
    decoding,         \* sendMessage invocations decoding a streamed response
    fx,               \* side effects of the last step (counts per kind)
    ev                \* the last step taken

    \* ---- one streamed response (handleStreamingResponse) ----
VARIABLES
    wire,                \* records of the response body not yet read
    placeholder,         \* the message's .message-content element
    hasStartedStreaming, \* app-chat.js: the typing indicator was replaced by <p>
    finalJson,           \* a final_json record was parsed
    applied,             \* concatenation of the texts of the chunk records handled
    streamPhase          \* "idle", "reading", "rendering", "ended" or "failed"

streamVars == <<wire, placeholder, hasStartedStreaming, finalJson, applied, streamPhase>>

    \* ---- the reveal renderer (StreamingWriter) ----
VARIABLES
    activeAnimations,    \* StreamingWriter.activeAnimations: ids of the tasks not cancelled
    tasks,               \* the writeText calls so far; a task's id is its index
    content              \* per message element: its children's generation and its text

writerVars == <<activeAnimations, tasks, content>>

    \* ---- the remaining components, each held as one record ----
VARIABLES
    retry,               \* one call of Utils.retryFunction / Utils.retryRequest
    scroll,              \* ScrollManager and the window's scroll position
    decoder,             \* the read loop of handleStreamingResponse: buffer and events
    channel,             \* localStorage 'auth_change' and the contexts sharing it
    rawStore,            \* localStorage as StorageManager finds it, and its last call
    streak,              \* consecutive non-timeout verification failures (history)
    inbound,             \* one streamed response, record by record
    stale,               \* in-flight rounds issued before the last logout (history)
    tabs                 \* two contexts of one origin and the store they share

auxVars == <<retry, scroll, decoder, channel, rawStore, streak, inbound, stale, tabs>>

\* A step of one of these components: only `ev` of the session variables changes.
AuxStep(e) ==
    /\ ev' = e
    /\ UNCHANGED <<impl, booted, initCheckPending, sharedView, online, appOnline,
                   hidden, serverUser, timer, inProgress, inflight, failures,
                   checkedOnce, visListener, pendingForced, logoutInFlight,
                   storeUser, storeBackup, threadId, loads, inputDisabled,
                   sendDisabled, now, chat, hasText, isSending, awaiting, decoding, fx>>
    /\ UNCHANGED <<streamVars, writerVars>>

authVars == <<impl, booted, initCheckPending, sharedView, online, appOnline, hidden,
              serverUser, timer, inProgress, inflight, failures, checkedOnce,
              visListener, pendingForced, logoutInFlight, storeUser, storeBackup,
              threadId, loads, inputDisabled, sendDisabled, now,
              chat, hasText, isSending, awaiting, decoding, fx, ev>>

(* ---------------- values ---------------- *)
Truthy(x) == x # ""

User(a, i, n, e) == [auth |-> a, id |-> i, name |-> n, email |-> e]
NoUser == User(FALSE, "", "", "")          \* { is_authenticated: false }

\* Identities the authority can report: two complete ones and two lacking a field.
Identities == { User(TRUE, "u1", "n", "e"), User(TRUE, "u2", "n", "e"),
                User(TRUE, "",   "n", "e"), User(TRUE, "u1", "n", "") }
ServerUsers == Identities \cup {NoUser}

\* Utils.generateThreadId(): a fresh id per call; n counts the calls of one page load.
generateThreadId(load, n) == 2 * load + n

\* One verification round's outcome: a 2xx JSON body, a non-2xx status, or a throw.
Ok(u)      == [kind |-> "ok",    status |-> 200, data |-> u,      err |-> ""]
Http(s)    == [kind |-> "http",  status |-> s,   data |-> NoUser, err |-> ""]
Throw(e)   == [kind |-> "throw", status |-> 0,   data |-> NoUser, err |-> e]
Statuses   == {401, 500, 503}
Errors     == {"AbortError", "NetworkError", "SyntaxError"}
Results    == {Ok(u) : u \in ServerUsers} \cup {Http(s) : s \in Statuses}
                 \cup {Throw(e) : e \in Errors}

NoFx == [profile |-> 0, store |-> 0, backup |-> 0, toast |-> ""]

Backup(t, u, th, f) == [ts |-> t, user |-> u, thread |-> th, failures |-> f]

(* ---------------- the context as one record ---------------- *)
Cur == [impl |-> impl, booted |-> booted, initCheckPending |-> initCheckPending,
        sharedView |-> sharedView, online |-> online, appOnline |-> appOnline,
        hidden |-> hidden, serverUser |-> serverUser, timer |-> timer,
        inProgress |-> inProgress, inflight |-> inflight, failures |-> failures,
        checkedOnce |-> checkedOnce, visListener |-> visListener,
        pendingForced |-> pendingForced, logoutInFlight |-> logoutInFlight,
        storeUser |-> storeUser, storeBackup |-> storeBackup, threadId |-> threadId,
        loads |-> loads, chat |-> chat, hasText |-> hasText, isSending |-> isSending,
        awaiting |-> awaiting, decoding |-> decoding,
        inputDisabled |-> inputDisabled, sendDisabled |-> sendDisabled, now |-> now,
        fx |-> NoFx]

Assign(S, e) ==
    /\ impl' = S.impl /\ booted' = S.booted /\ initCheckPending' = S.initCheckPending
    /\ sharedView' = S.sharedView /\ online' = S.online /\ appOnline' = S.appOnline
    /\ hidden' = S.hidden /\ serverUser' = S.serverUser /\ timer' = S.timer
    /\ inProgress' = S.inProgress /\ inflight' = S.inflight /\ failures' = S.failures
    /\ checkedOnce' = S.checkedOnce /\ visListener' = S.visListener
    /\ pendingForced' = S.pendingForced /\ logoutInFlight' = S.logoutInFlight
    /\ storeUser' = S.storeUser /\ storeBackup' = S.storeBackup
    /\ threadId' = S.threadId /\ loads' = S.loads /\ inputDisabled' = S.inputDisabled
    /\ sendDisabled' = S.sendDisabled /\ now' = S.now
    /\ chat' = S.chat /\ hasText' = S.hasText /\ isSending' = S.isSending
    /\ awaiting' = S.awaiting /\ decoding' = S.decoding
    /\ fx' = S.fx /\ ev' = e
    /\ UNCHANGED <<streamVars, writerVars>>

Commit(S, e) == Assign(S, e) /\ UNCHANGED auxVars

AddFx(S, k) == [S EXCEPT !.fx[k] = @ + 1]
showToast(S, m) == [S EXCEPT !.fx.toast = m]

InFlightCount(f) == f


(* ---------------- StorageManager ---------------- *)
SetUserData(S, u) == AddFx([S EXCEPT !.storeUser = <<u>>], "store")
RemoveUserData(S) == [S EXCEPT !.storeUser = <<>>]
RemoveBackup(S)   == [S EXCEPT !.storeBackup = <<>>]
StorageClear(S)   == [S EXCEPT !.storeUser = <<>>, !.storeBackup = <<>>]

\* impl 1: backupState() snapshots the stored identity, the thread and the metrics.
backupState(S) ==
    AddFx([S EXCEPT !.storeBackup =
              <<Backup(S.now, S.storeUser, S.threadId, S.failures)>>], "backup")

\* impl 2: backupSession() snapshots AppState.serverUser, only while authenticated.
backupSession(S) ==
    IF S.serverUser.auth
    THEN AddFx([S EXCEPT !.storeBackup =
                   <<Backup(S.now, <<S.serverUser>>, S.threadId, 0)>>], "backup")
    ELSE S

\* A restoreState() that would still accept a backup exactly one hour old.
restoreStateOkInclusive(S) ==
    /\ S.storeBackup # <<>>
    /\ S.now - S.storeBackup[1].ts <= BackupMaxAge

\* impl 1: the backup is restored iff Date.now() - backup.timestamp < 3600000.
restoreStateOk(S) ==
    /\ S.storeBackup # <<>>
    /\ S.now - S.storeBackup[1].ts < BackupMaxAge

restoreState(S) ==
    IF ~restoreStateOk(S) THEN S
    ELSE LET b == S.storeBackup[1] IN
         [S EXCEPT !.serverUser = IF b.user # <<>> THEN b.user[1] ELSE @,
                   !.threadId   = b.thread,
                   !.failures   = b.failures]

\* impl 2: the backup is restored iff it has a user and a timestamp and is < 24 h old.
restoreSessionOk(S) ==
    /\ S.storeBackup # <<>>
    /\ S.storeBackup[1].user # <<>>
    /\ S.storeBackup[1].ts # 0
    /\ S.now - S.storeBackup[1].ts < SessionMaxAge

restoreSession(S) ==
    IF ~restoreSessionOk(S) THEN S
    ELSE LET b == S.storeBackup[1] IN
         [S EXCEPT !.serverUser = b.user[1],
                   !.threadId   = b.thread]

(* ---------------- AuthManager: state entry ---------------- *)
isAuthenticated(S) == S.serverUser.auth = TRUE

isConnected(S) == IF S.impl = 1 THEN S.appOnline /\ S.online ELSE S.online

getCheckInterval(S) ==
    IF S.impl = 3 THEN LegacyInterval
    ELSE IF ~isConnected(S) THEN IdleInterval
    ELSE IF S.hidden THEN IdleInterval
    ELSE ActiveInterval

startPeriodicAuthCheck(S) ==
    [S EXCEPT !.timer = getCheckInterval(S),
              !.visListener = @ \/ (S.impl = 2)]

stopPeriodicAuthCheck(S) == [S EXCEPT !.timer = 0]

enableChatInterface(S)  == [S EXCEPT !.inputDisabled = FALSE, !.sendDisabled = FALSE]
disableChatInterface(S) == [S EXCEPT !.inputDisabled = TRUE,  !.sendDisabled = TRUE]

updateUserProfile(S) == AddFx(S, "profile")

authenticatedState(S) ==
    LET A == startPeriodicAuthCheck(enableChatInterface(updateUserProfile(S)))
        B == SetUserData(A, A.serverUser)
    IN  IF S.impl = 2 THEN backupSession(B) ELSE B

unauthenticatedState(S) ==
    LET A == RemoveUserData(stopPeriodicAuthCheck(disableChatInterface(S)))
    IN  IF S.impl = 2 THEN RemoveBackup(A) ELSE A

sharedViewState(S) == stopPeriodicAuthCheck(disableChatInterface(S))

checkAuthentication(S) ==
    LET u == S.serverUser IN
    IF u.auth /\ Truthy(u.name) /\ Truthy(u.email)
    THEN IF S.impl = 3
         THEN startPeriodicAuthCheck(enableChatInterface(updateUserProfile(S)))
         ELSE authenticatedState(S)
    ELSE IF S.impl = 3 THEN stopPeriodicAuthCheck(disableChatInterface(S))
    ELSE IF S.sharedView THEN sharedViewState(S)
    ELSE unauthenticatedState(S)

loadStoredFallback(S) ==
    IF /\ S.storeUser # <<>>
       /\ S.storeUser[1].auth /\ Truthy(S.storeUser[1].name) /\ Truthy(S.storeUser[1].email)
       /\ ~S.serverUser.auth
    THEN [S EXCEPT !.serverUser = User(TRUE, S.storeUser[1].id, S.storeUser[1].name,
                                       S.storeUser[1].email)]
    ELSE S

loadStoredUser(S) ==
    IF S.impl = 2 /\ restoreSessionOk(S) THEN restoreSession(S)
    ELSE loadStoredFallback(S)

(* ---------------- AuthManager: one verification round ---------------- *)
\* The synchronous head of performAuthCheck(force): the guards, then the request.
authCheckSkipped(S, force) ==
    /\ S.impl # 3
    /\ \/ S.inProgress /\ ~force
       \/ ~isConnected(S)

performAuthCheck(S, force) ==
    IF authCheckSkipped(S, force) THEN S
    ELSE [S EXCEPT !.inProgress = IF S.impl = 3 THEN @ ELSE TRUE,
                   !.inflight = @ + 1]

\* Can the head issue a request without exceeding the model's bound?
CanIssue(S, force, n) ==
    authCheckSkipped(S, force) \/ InFlightCount(S.inflight) + n <= MaxInFlight

NewIdentity(d) == User(TRUE, d.id, d.name, d.email)

\* A performAuthCheck without its `finally` block.
authCheckNoFinally(S) == S

\* `finally { AppState.authCheckInProgress = false }`
authCheckFinally(S) == [S EXCEPT !.inProgress = FALSE]

\* A variant that treats every non-2xx status as an expired session.
onHttpErrorDropsSession(S, r) ==
    showToast(checkAuthentication([S EXCEPT !.serverUser = NoUser, !.failures = @ + 1]),
              "Session expired")

\* The non-2xx branch.
onHttpError(S, r) ==
    LET F == [S EXCEPT !.failures = @ + 1] IN
    IF r.status = 401
    THEN IF F.serverUser.auth
         THEN showToast(checkAuthentication([F EXCEPT !.serverUser = NoUser]),
                        "Session expired")
         ELSE F
    ELSE IF r.status = 503 /\ S.impl = 1 THEN showToast(F, "Service unavailable")
    ELSE F

\* The 2xx branch: status change, identity swap, stored-identity refresh.
onStatusChange(S, d) ==
    IF ~d.auth
    THEN showToast(checkAuthentication([S EXCEPT !.serverUser = NoUser]), "Logged out")
    ELSE showToast(checkAuthentication([S EXCEPT !.serverUser = NewIdentity(d)]),
                   "Welcome back")

\* A variant that takes every authenticated result for a different user.
identitySwappedAlways(S, d) == d.auth

identitySwapped(S, d) ==
    /\ d.auth /\ Truthy(S.serverUser.id) /\ Truthy(d.id) /\ S.serverUser.id # d.id

onIdentitySwap(S, d) ==
    LET A == SetUserData(updateUserProfile([S EXCEPT !.serverUser = NewIdentity(d)]),
                         NewIdentity(d))
    IN  IF S.impl = 2 THEN backupSession(A) ELSE A

onStoredRefresh(S, d) ==
    IF d.auth /\ Truthy(d.email)
    THEN IF S.impl = 2 THEN backupSession(SetUserData(S, NewIdentity(d)))
         ELSE SetUserData(S, NewIdentity(d))
    ELSE S

onOk(S, d) ==
    IF S.serverUser.auth # d.auth THEN onStatusChange(S, d)
    ELSE LET A == IF identitySwapped(S, d) THEN onIdentitySwap(S, d) ELSE S
             B == onStoredRefresh(A, d)
         IN  IF S.impl = 1 THEN [B EXCEPT !.failures = 0] ELSE B

\* The catch branch.
onThrow(S, r) ==
    LET F == [S EXCEPT !.failures = @ + 1] IN
    IF r.err = "AbortError"
    THEN IF S.impl = 2 THEN showToast(F, "Connection timeout") ELSE F
    ELSE IF S.impl = 1
         THEN IF F.failures >= 3 THEN showToast(F, "Authentication check failed") ELSE F
         ELSE IF F.online /\ r.err # "NetworkError"
              THEN showToast(F, "Authentication check failed") ELSE F

\* impl 1 and 2: what performAuthCheck does with the round's outcome.
authCheckOutcome(S, r) ==
    LET C == IF S.impl = 2 /\ r.err \notin {"AbortError", "NetworkError"}
             THEN [S EXCEPT !.checkedOnce = TRUE] ELSE S
    IN  authCheckFinally(CASE r.kind = "ok"    -> onOk(C, r.data)
                           [] r.kind = "http"  -> onHttpError(C, r)
                           [] r.kind = "throw" -> onThrow(C, r))

Counts(r) == r.kind \in {"http", "throw"}


(* ---------------- page life cycle ---------------- *)
\* A freshly loaded page: AppState as constructed, SERVER_USER as rendered by the server.
\* The template ships the chat input disabled (AUTHENTICATION_TEST.md, "Before Login").
FreshPage(S, u) ==
    [S EXCEPT !.booted = FALSE, !.initCheckPending = FALSE, !.serverUser = u,
              !.timer = 0, !.inProgress = FALSE, !.inflight = 0,
              !.failures = 0, !.checkedOnce = FALSE, !.visListener = FALSE,
              !.pendingForced = 0, !.logoutInFlight = FALSE,
              !.threadId = generateThreadId(S.loads, 0),
              !.appOnline = S.online, !.inputDisabled = TRUE, !.sendDisabled = TRUE,
              !.hasText = FALSE, !.isSending = FALSE, !.awaiting = 0, !.decoding = 0]

\* AuthManager.init() (impl 1, 2) / initialize() (impl 3).
authInit(S) ==
    LET B == [S EXCEPT !.booted = TRUE, !.appOnline = S.online] IN
    CASE S.impl = 1 -> [loadStoredUser(restoreState(B)) EXCEPT !.initCheckPending = TRUE]
      [] S.impl = 2 -> checkAuthentication(loadStoredUser(B))
      [] S.impl = 3 -> checkAuthentication(B)

\* The beforeunload handlers.
beforeUnload(S) ==
    CASE S.impl = 1 -> backupState(S)
      [] S.impl = 2 -> backupSession(S)
      [] S.impl = 3 -> stopPeriodicAuthCheck(S)

handleAuthChange(S) == checkAuthentication(loadStoredUser(S))

\* impl 2 logs out locally before the request; impl 1 only after a 2xx response.
logoutLocal(S) == StorageClear(checkAuthentication([S EXCEPT !.serverUser = NoUser]))

(* ---------------- actions ---------------- *)
\* ev names the last step: the handler that ran, or the outcome of the round handled.
E(k)  == k
EF(k) == "forced"
Tag(r) == CASE r.kind = "ok"    -> IF r.data.auth THEN "resp:auth" ELSE "resp:unauth"
            [] r.kind = "http"  -> IF r.status = 401 THEN "resp:401" ELSE "resp:5xx"
            [] r.kind = "throw" -> IF r.err = "AbortError" THEN "resp:timeout"
                                   ELSE "resp:error"
ER(r) == Tag(r)

Boot ==
    /\ ~booted
    /\ Commit(authInit(Cur), E("boot"))

InitCheck ==
    /\ booted /\ initCheckPending
    /\ Commit(checkAuthentication([Cur EXCEPT !.initCheckPending = FALSE]), E("initcheck"))

\* The setInterval callback of startPeriodicAuthCheck.
PeriodicTick ==
    /\ booted /\ timer # 0
    /\ CanIssue(Cur, FALSE, 1)
    /\ IF impl = 2 /\ ~(online /\ serverUser.auth)
       THEN Commit(Cur, E("tick"))
       ELSE Commit(performAuthCheck(Cur, FALSE), E("tick"))

\* window 'online': impl 1 defers a forced check by 1 s; impl 2 runs two listeners
\* (AuthManager.setupConnectionMonitoring, then ConnectionMonitor.handleConnectionRestore).
onOnline(S) ==
    LET A == [S EXCEPT !.online = TRUE, !.appOnline = IF S.impl = 3 THEN @ ELSE TRUE] IN
    CASE S.impl = 1 -> IF A.serverUser.auth THEN [A EXCEPT !.pendingForced = @ + 1] ELSE A
      [] S.impl = 2 -> IF A.serverUser.auth
                       THEN performAuthCheck(
                              startPeriodicAuthCheck(performAuthCheck(A, TRUE)), TRUE)
                       ELSE A
      [] S.impl = 3 -> A

GoOnline ==
    /\ booted /\ ~online
    /\ impl = 1 /\ serverUser.auth => pendingForced < MaxTimers
    /\ impl = 2 /\ serverUser.auth => InFlightCount(inflight) + 2 <= MaxInFlight
    /\ Commit(onOnline(Cur), EF("online"))

ForcedTimer ==
    /\ booted /\ pendingForced > 0
    /\ CanIssue(Cur, TRUE, 1)
    /\ Commit(performAuthCheck([Cur EXCEPT !.pendingForced = @ - 1], TRUE), EF("forced"))

onOffline(S) ==
    LET A == [S EXCEPT !.online = FALSE, !.appOnline = IF S.impl = 3 THEN @ ELSE FALSE] IN
    IF S.impl = 2 THEN stopPeriodicAuthCheck(A) ELSE A

GoOffline ==
    /\ booted /\ online
    /\ Commit(onOffline(Cur), E("offline"))

\* document 'visibilitychange'. impl 2 throttles the forced check to one per 30 s
\* (elapsed = TRUE when more than 30 s passed since the last completed fetch).
onVisibility(S, elapsed) ==
    LET A == [S EXCEPT !.hidden = ~S.hidden] IN
    CASE S.impl = 1 -> IF ~A.hidden /\ A.serverUser.auth THEN performAuthCheck(A, TRUE) ELSE A
      [] S.impl = 2 ->
           LET B == IF A.visListener /\ A.timer # 0
                    THEN [A EXCEPT !.timer = getCheckInterval(A)] ELSE A
           IN  IF ~B.hidden /\ B.serverUser.auth /\ (elapsed \/ ~B.checkedOnce)
               THEN performAuthCheck(B, TRUE) ELSE B
      [] S.impl = 3 -> A

VisibilityChange(elapsed) ==
    /\ booted
    /\ (impl = 2 /\ checkedOnce) \/ elapsed
    /\ CanIssue(Cur, TRUE, 1)
    /\ Commit(onVisibility(Cur, elapsed), EF("visibility"))

\* window 'focus' (impl 2 only).
WindowFocus ==
    /\ booted /\ impl = 2
    /\ CanIssue(Cur, TRUE, 1)
    /\ Commit(IF serverUser.auth /\ online THEN performAuthCheck(Cur, TRUE) ELSE Cur,
              EF("focus"))

\* window.checkAuth()
ManualCheckAuth ==
    /\ booted /\ impl # 3
    /\ CanIssue(Cur, TRUE, 1)
    /\ Commit(performAuthCheck(Cur, TRUE), EF("manual"))

\* A round's request settles with outcome r (impl 1: after retryFunction's attempts,
\* which touch no state between them).
AuthResponse(r) ==
    /\ booted /\ impl # 3 /\ inflight > 0
    /\ Counts(r) => failures < MaxFailures
    /\ Commit(authCheckOutcome([Cur EXCEPT !.inflight = @ - 1], r), ER(r))

\* app-auth.js: a changed status or identity announces and reloads the page, which
\* the server renders with SERVER_USER = u; everything else is ignored.
legacyReloads(S, r) ==
    /\ r.kind = "ok"
    /\ \/ S.serverUser.auth # r.data.auth
       \/ r.data.auth /\ Truthy(S.serverUser.id) /\ Truthy(r.data.id)
             /\ S.serverUser.id # r.data.id

LegacyResponse(r, u) ==
    /\ booted /\ impl = 3 /\ inflight > 0
    /\ LET S == [Cur EXCEPT !.inflight = @ - 1] IN
       IF legacyReloads(S, r)
       THEN Commit(FreshPage(S, u), ER(r))
       ELSE u = NoUser /\ Commit(S, ER(r))

\* AuthManager.logout(): impl 2 clears first, impl 1 waits for the server.
Logout ==
    /\ booted /\ impl # 3
    /\ IF impl = 2 THEN Commit(logoutLocal(Cur), E("logout"))
       ELSE ~logoutInFlight /\ Commit([Cur EXCEPT !.logoutInFlight = TRUE], E("logoutreq"))

LogoutResponse(ok) ==
    /\ booted /\ impl = 1 /\ logoutInFlight
    /\ LET S == [Cur EXCEPT !.logoutInFlight = FALSE] IN
       IF ok THEN Commit(showToast(logoutLocal(S), "Logged out successfully"), E("logout"))
       ELSE Commit(showToast(S, "Logout failed"), E("logoutfail"))

\* Another tab changes dsa_user_data (to v); the 'storage' listener handles it.
StorageEvent(v) ==
    /\ booted /\ impl # 3 /\ v # storeUser
    /\ Commit(handleAuthChange([Cur EXCEPT !.storeUser = v]), E("storage"))

\* impl 1: the global 'error' / 'unhandledrejection' listeners.
PageError ==
    /\ booted /\ impl = 1 /\ failures < MaxFailures
    /\ Commit([Cur EXCEPT !.failures = @ + 1], E("error"))

\* UIManager.startNewThread(): the first new conversation of this page load.
startNewThread(S) == [S EXCEPT !.threadId = generateThreadId(S.loads, 1)]

StartNewThread ==
    /\ booted /\ threadId # generateThreadId(loads, 1)
    /\ Commit(startNewThread(Cur), E("newthread"))

\* The user leaves the page (beforeunload) and loads it again `away` ms later; the
\* server renders the new page with SERVER_USER = u.
Leave(u, away) ==
    /\ booted /\ loads < MaxLoads
    /\ Commit(FreshPage([beforeUnload(Cur) EXCEPT !.loads = @ + 1, !.now = @ + away], u),
              E("load"))

\* The page as loaded: AppState as constructed, an empty store, the template's
\* disabled chat input.
PageAtLoad ==
    /\ booted = FALSE /\ initCheckPending = FALSE
    /\ online = TRUE /\ appOnline = TRUE /\ hidden = FALSE
    /\ timer = 0 /\ inProgress = FALSE /\ inflight = 0
    /\ failures = 0 /\ checkedOnce = FALSE /\ visListener = FALSE
    /\ pendingForced = 0 /\ logoutInFlight = FALSE
    /\ storeUser = <<>> /\ storeBackup = <<>>
    /\ threadId = generateThreadId(1, 0) /\ loads = 1
    /\ inputDisabled = TRUE /\ sendDisabled = TRUE
    /\ now = StartTime
    /\ fx = NoFx
    /\ ev = "load"

\* The chat script as loaded: nothing typed, nothing being sent.
ChatIdle == hasText = FALSE /\ isSending = FALSE /\ awaiting = 0 /\ decoding = 0

\* An empty bot message: render.addBotMessage('', messageId).
EmptyPlaceholder == [indicator |-> FALSE, p |-> FALSE, text |-> <<>>]

\* No response is being streamed.
StreamIdle ==
    /\ wire = <<>> /\ placeholder = EmptyPlaceholder /\ hasStartedStreaming = FALSE
    /\ finalJson = FALSE /\ applied = <<>> /\ streamPhase = "idle"

Targets == {"m1", "m2"}

\* No reveal has been started: the message elements are empty.
WriterIdle ==
    /\ activeAnimations = {} /\ tasks = <<>>
    /\ content = [el \in Targets |-> [gen |-> 0, text |-> <<>>]]

\* No call of the retry executor has been made.
RetryIdle == [fn |-> "", max |-> 0, base |-> 0, attempt |-> 0, calls |-> 0,
              waits |-> <<>>, phase |-> "idle", returned |-> 0, thrown |-> 0]

\* ScrollManager as constructed, the page fitting the window.
ScrollIdle == [autoScrollEnabled |-> TRUE, top |-> 0, height |-> 0,
               debounce |-> FALSE, pending |-> 0, buttonVisible |-> FALSE,
               userWentUp |-> FALSE, scrolledUp |-> FALSE, replaying |-> FALSE]

\* The components outside the session state machine, as constructed.
\* The read loop before its first reader.read(): `let buffer = ''`.
DecoderIdle == [received |-> <<>>, buffer |-> <<>>, emitted |-> <<>>, done |-> FALSE]

\* The contexts (tabs) of one origin; they share one localStorage.
Contexts == {"c1", "c2", "c3"}

\* A context that is not open, and one whose page has just run setupEventListeners.
ClosedContext    == [open |-> FALSE, inbox |-> 0, reloadTimers |-> 0, sinceCall |-> FALSE]
ListeningContext == [open |-> TRUE,  inbox |-> 0, reloadTimers |-> 0, sinceCall |-> TRUE]

\* No 'auth_change' key in the store, no context open yet.
ChannelIdle == [key |-> <<>>, caller |-> "", ctx |-> [c \in Contexts |-> ClosedContext]]

\* StorageManager.keys (two of them) and localStorage.getItem's null.
StorageKeys == {"dsa_user_data", "dsa_session_backup"}
NoItem == <<>>

\* A working, empty localStorage on which StorageManager has not been called.
NoCall == [op |-> "", key |-> "", default |-> "", ret |-> "", threw |-> FALSE]
RawStoreIdle == [mode |-> "ok", items |-> [k \in StorageKeys |-> NoItem], last |-> NoCall]

\* handleStreamingResponse before it is entered: nothing appended, no thread id yet.
InboundIdle == [wire |-> <<>>, surface |-> <<>>, threadId |-> "", finalJson |-> <<>>,
                phase |-> "idle", terminated |-> FALSE]

\* Two contexts of one origin, not yet loaded, over an empty store.
Tabs == {"t1", "t2"}
TabsIdle == [open |-> [t \in Tabs |-> FALSE],
             user |-> [t \in Tabs |-> [auth |-> FALSE, id |-> "", name |-> "", email |-> ""]],
             inbox |-> [t \in Tabs |-> 0],
             store |-> <<>>, backup |-> <<>>, left |-> ""]

AuxIdle ==
    /\ retry = RetryIdle /\ scroll = ScrollIdle /\ decoder = DecoderIdle
    /\ channel = ChannelIdle /\ rawStore = RawStoreIdle /\ streak = 0
    /\ inbound = InboundIdle
    /\ stale = 0
    /\ tabs = TabsIdle

\* window.SERVER_USER as the server renders it in the restore and chat runs.
RenderedUsers == {NoUser, User(TRUE, "u1", "n", "e")}

StoredUsers == {<<>>, <<User(TRUE, "u1", "n", "e")>>, <<User(TRUE, "u2", "n", "e")>>}

AuthNext ==
    \/ Boot
    \/ InitCheck
    \/ PeriodicTick
    \/ GoOnline
    \/ ForcedTimer
    \/ GoOffline
    \/ \E el \in BOOLEAN : VisibilityChange(el)
    \/ WindowFocus
    \/ ManualCheckAuth
    \/ \E r \in Results : AuthResponse(r)
    \/ \E r \in Results, u \in ServerUsers : LegacyResponse(r, u)
    \/ Logout
    \/ \E ok \in BOOLEAN : LogoutResponse(ok)
    \/ \E v \in StoredUsers : StorageEvent(v)
    \/ PageError

AuthInit ==
    /\ impl \in {1, 2, 3} /\ sharedView \in BOOLEAN
    /\ serverUser \in ServerUsers
    /\ chat = "app-chat"
    /\ AuxIdle /\ PageAtLoad /\ ChatIdle /\ StreamIdle /\ WriterIdle

vars == <<authVars, streamVars, writerVars, auxVars>>

SpecAuth == AuthInit /\ [][AuthNext]_vars

(* ---------------- message sending: SpecChat ---------------- *)
\* The session state of the context as checkAuthentication() classifies it.
SessionState ==
    IF serverUser.auth /\ Truthy(serverUser.name) /\ Truthy(serverUser.email)
    THEN "Authenticated"
    ELSE IF sharedView THEN "SharedReadOnly" ELSE "Unauthenticated"

\* MessageSender.disableInput / enableInput (app-chat.js) and the same assignments
\* inlined in window.sendMessage of part_005 and part_006.
disableInput(S) == [S EXCEPT !.sendDisabled = TRUE,  !.inputDisabled = TRUE]
enableInput(S)  == [S EXCEPT !.sendDisabled = FALSE, !.inputDisabled = FALSE]

\* InputManager.updateSendButton (app-chat.js): only the button is written.
updateSendButton(S) ==
    [S EXCEPT !.sendDisabled = ~S.hasText \/ ~isAuthenticated(S) \/ S.isSending]

\* The early returns of sendMessage: app-chat.js also asks auth.isAuthenticated().
sendReturnsEarly(S) ==
    IF S.chat = "app-chat"
    THEN ~S.hasText \/ S.isSending \/ S.sendDisabled \/ ~isAuthenticated(S)
    ELSE ~S.hasText \/ S.sendDisabled

\* sendMessage up to its first await: the request to /query-stream is on its way.
sendMessage(S) ==
    IF sendReturnsEarly(S)
    THEN IF S.chat = "app-chat" /\ S.hasText /\ ~S.isSending /\ ~S.sendDisabled
         THEN showToast(S, "Please sign in to start chatting") ELSE S
    ELSE [disableInput(S) EXCEPT !.isSending = (S.chat = "app-chat"),
                                 !.hasText = FALSE, !.awaiting = @ + 1]

\* sendMessage without the reset of its `finally` block.
sendFinallyKeepsFlag(S) == enableInput(S)

\* `finally` of sendMessage.
sendFinally(S) == enableInput([S EXCEPT !.isSending = FALSE])

\* window.sendSuggestion (app-chat.js).
sendSuggestion(S) ==
    IF isAuthenticated(S) THEN sendMessage([S EXCEPT !.hasText = TRUE])
    ELSE showToast(S, "Please sign in to start chatting")

SendTag(S) == IF S.awaiting > awaiting THEN "send:request" ELSE "send:refused"

\* Enter in the input, a click on the button, Ctrl+Enter anywhere, window.sendMessage().
SendMessage ==
    /\ booted
    /\ sendReturnsEarly(Cur) \/ awaiting + decoding < MaxSends
    /\ Commit(sendMessage(Cur), SendTag(sendMessage(Cur)))

SendSuggestion ==
    /\ booted /\ chat = "app-chat"
    /\ awaiting + decoding < MaxSends
    /\ Commit(sendSuggestion(Cur), SendTag(sendSuggestion(Cur)))

\* The user edits the enabled input; app-chat.js refreshes the button on 'input'.
onInput(S, t) ==
    IF S.chat = "app-chat" THEN updateSendButton([S EXCEPT !.hasText = t])
    ELSE [S EXCEPT !.hasText = t]

TypeText(t) ==
    /\ booted /\ ~inputDisabled /\ t # hasText
    /\ Commit(onInput(Cur, t), E("input"))

\* setInterval(() => InputManager.updateSendButton(), 1000)
UpdateSendButton ==
    /\ booted /\ chat = "app-chat"
    /\ Commit(updateSendButton(Cur), E("button"))

\* The response of a send arrives: an event stream starts being decoded; a JSON body
\* is rendered and a failure is caught, both followed by the finally block.
ChatResponse(k) ==
    /\ booted /\ awaiting > 0
    /\ IF k = "stream"
       THEN Commit([Cur EXCEPT !.awaiting = @ - 1, !.decoding = @ + 1], E("send:decode"))
       ELSE Commit(sendFinally([Cur EXCEPT !.awaiting = @ - 1]), E("send:done"))

\* The stream ends (done, error or end of body): handleStreamingResponse returns.
StreamEnd ==
    /\ booted /\ decoding > 0
    /\ Commit(sendFinally([Cur EXCEPT !.decoding = @ - 1]), E("send:done"))

ChatResults == {Ok(NoUser), Ok(User(TRUE, "u1", "n", "e")), Http(401), Http(500)}

ChatInit ==
    /\ impl \in {1, 2} /\ sharedView \in BOOLEAN
    /\ serverUser \in RenderedUsers
    /\ chat \in {"app-chat", "part_005"}
    /\ AuxIdle /\ PageAtLoad /\ ChatIdle /\ StreamIdle /\ WriterIdle

ChatNext ==
    \/ Boot
    \/ InitCheck
    \/ ManualCheckAuth
    \/ \E r \in ChatResults : AuthResponse(r)
    \/ Logout
    \/ \E ok \in BOOLEAN : LogoutResponse(ok)
    \/ SendMessage
    \/ SendSuggestion
    \/ \E t \in BOOLEAN : TypeText(t)
    \/ UpdateSendButton
    \/ \E k \in {"stream", "json", "error"} : ChatResponse(k)
    \/ StreamEnd

SpecChat == ChatInit /\ [][ChatNext]_vars

(* ---------------- chat claims (SpecChat) ---------------- *)
\* C3: whenever the session state is Unauthenticated or SharedReadOnly the chat input
\* and the send button are disabled, whatever sends and button refreshes interleave.
C3_GatedInputDisabled ==
    (booted /\ SessionState # "Authenticated") => (inputDisabled /\ sendDisabled)

\* C4: no query or stream request is sent while the session state is Unauthenticated
\* or SharedReadOnly: every send path is gated by the session state.
C4_NoRequestWhileGated ==
    ev = "send:request" => SessionState = "Authenticated"

\* C30: MessageSender.sendMessage of app-chat.js admits at most one send at a time:
\* isSending is true exactly while one send is between its guard and its finally, a
\* call made while isSending is true issues no request, and the step that ends a send
\* (JSON rendered, failure caught, stream finished) leaves isSending false.
C30_OneSendAtATime ==
    [][chat = "app-chat" =>
         /\ awaiting' + decoding' <= 1
         /\ isSending' <=> (awaiting' + decoding' = 1)
         /\ (isSending /\ ev' \in {"send:request", "send:refused"})
               => (ev' = "send:refused" /\ awaiting' = awaiting)
         /\ ev' = "send:done" => ~isSending']_vars

\* A suggestion is clicked while a send is in flight and is refused with its text in
\* the input.
C30_Witness ==
    /\ chat = "app-chat" /\ ev = "send:refused"
    /\ isSending /\ hasText /\ awaiting + decoding = 1

(* ---------------- streamed response: SpecStream ---------------- *)
\* Texts are sequences of characters; the entity characters are among them.
Texts == { <<>>, <<"H", "e", "l">>, <<"l", "o">>, <<"a", "<", "b">>,
           <<"&", "l", "t", ";">> }

Chunk(t)  == [name |-> "chunk", text |-> t]
StreamEvents == {Chunk(t) : t \in Texts}
                  \cup {[name |-> n, text |-> <<>>] : n \in {"meta", "final_json", "error"}}

SeqsUpTo(S, n) == UNION {[1..k -> S] : k \in 0..n}

\* escapeHtml (div.textContent -> div.innerHTML) and the replace chain of part_005.
EscapeChar(c) ==
    CASE c = "&" -> <<"&", "a", "m", "p", ";">>
      [] c = "<" -> <<"&", "l", "t", ";">>
      [] c = ">" -> <<"&", "g", "t", ";">>
      [] OTHER   -> <<c>>

RECURSIVE escapeHtml(_)
escapeHtml(t) == IF t = <<>> THEN <<>> ELSE EscapeChar(Head(t)) \o escapeHtml(Tail(t))

StartsWith(h, pre) == Len(h) >= Len(pre) /\ SubSeq(h, 1, Len(pre)) = pre
Drop(h, n) == SubSeq(h, n + 1, Len(h))

\* A variant that shows the markup as it is, entities undecoded.
markupAsText(h) == h

\* The text an element shows after `innerHTML = h`, h holding character data and
\* character references only.
RECURSIVE parseHtmlText(_)
parseHtmlText(h) ==
    IF h = <<>> THEN <<>>
    ELSE IF StartsWith(h, <<"&", "a", "m", "p", ";">>)
         THEN <<"&">> \o parseHtmlText(Drop(h, 5))
    ELSE IF StartsWith(h, <<"&", "l", "t", ";">>)
         THEN <<"<">> \o parseHtmlText(Drop(h, 4))
    ELSE IF StartsWith(h, <<"&", "g", "t", ";">>)
         THEN <<">">> \o parseHtmlText(Drop(h, 4))
    ELSE <<Head(h)>> \o parseHtmlText(Tail(h))

\* `contentElement.innerHTML += escaped`: the old text is serialised, the markup
\* appended, and the whole parsed again.
innerHtmlAppend(text, t) == parseHtmlText(escapeHtml(text) \o escapeHtml(t))

StreamCur == [placeholder |-> placeholder, started |-> hasStartedStreaming,
              finalJson |-> finalJson, applied |-> applied, phase |-> streamPhase]

\* EnhancedRenderer.showTypingIndicator(placeholder)
showTypingIndicator(P) == [indicator |-> TRUE, p |-> FALSE, text |-> <<>>]

\* appendText of handleStreamingResponse: app-chat.js swaps the indicator for a <p>
\* on the first call; part_005 appends behind the indicator.
appendText(P, t) ==
    IF chat = "app-chat"
    THEN LET A == IF ~P.started
                  THEN [P EXCEPT !.placeholder = [indicator |-> FALSE, p |-> TRUE,
                                                  text |-> <<>>],
                                 !.started = TRUE]
                  ELSE P
         IN  [A EXCEPT !.placeholder.text = innerHtmlAppend(@, t)]
    ELSE [P EXCEPT !.placeholder.text = innerHtmlAppend(@, t)]

\* One record of the stream, by event name.
onStreamEvent(P, e) ==
    CASE e.name = "chunk" ->
           LET A == [P EXCEPT !.applied = @ \o e.text] IN
           IF e.text # <<>> THEN appendText(A, e.text) ELSE A
      [] e.name = "final_json" -> [P EXCEPT !.finalJson = TRUE]
      [] e.name = "error" -> IF chat = "app-chat" THEN [P EXCEPT !.phase = "failed"] ELSE P
      [] OTHER -> P

\* `for (const eventString of events)`: in order, until one throws.
RECURSIVE onStreamEvents(_, _)
onStreamEvents(P, es) ==
    IF es = <<>> \/ P.phase = "failed" THEN P
    ELSE onStreamEvents(onStreamEvent(P, Head(es)), Tail(es))

StreamCommit(P, w) ==
    /\ placeholder' = P.placeholder /\ hasStartedStreaming' = P.started
    /\ finalJson' = P.finalJson /\ applied' = P.applied /\ streamPhase' = P.phase
    /\ wire' = w
    /\ UNCHANGED <<authVars, writerVars, auxVars>>

\* handleStreamingResponse is entered.
StreamOpen ==
    /\ streamPhase = "idle"
    /\ StreamCommit([StreamCur EXCEPT !.placeholder = showTypingIndicator(@),
                                      !.phase = "reading"], wire)

\* reader.read() resolves with bytes that complete the next n records.
StreamRead(n) ==
    /\ streamPhase = "reading" /\ n <= Len(wire)
    /\ StreamCommit(onStreamEvents(StreamCur, SubSeq(wire, 1, n)), Drop(wire, n))

\* reader.read() resolves with done: the final render starts if there is a final_json.
StreamClose ==
    /\ streamPhase = "reading" /\ wire = <<>>
    /\ StreamCommit([StreamCur EXCEPT
                        !.phase = IF finalJson THEN "rendering" ELSE "ended",
                        !.placeholder = IF finalJson THEN showTypingIndicator(@) ELSE @],
                    wire)

StreamInit ==
    /\ impl = 2 /\ sharedView = FALSE
    /\ serverUser = NoUser
    /\ chat \in {"app-chat", "part_005"}
    /\ AuxIdle /\ PageAtLoad /\ ChatIdle /\ WriterIdle
    /\ wire \in SeqsUpTo(StreamEvents, MaxEvents)
    /\ placeholder = EmptyPlaceholder /\ hasStartedStreaming = FALSE
    /\ finalJson = FALSE /\ applied = <<>> /\ streamPhase = "idle"

StreamNext ==
    \/ StreamOpen
    \/ \E n \in 1..MaxBatch : StreamRead(n)
    \/ StreamClose

SpecStream == StreamInit /\ [][StreamNext]_vars

(* ---------------- stream claim (SpecStream) ---------------- *)
\* The text the placeholder shows: the indicator's caption, then the appended text.
IndicatorText == IF chat = "app-chat" THEN <<"DSA Mentor is thinking">> ELSE <<>>

ShownText ==
    (IF placeholder.indicator THEN IndicatorText ELSE <<>>) \o placeholder.text

\* C5 (as stated): when all records of the stream have been handled and the final
\* render has not started, the placeholder shows exactly the concatenation of the
\* chunk texts in arrival order.
C5_ShownIsConcatenation ==
    (streamPhase = "reading" /\ wire = <<>>) => ShownText = applied

\* C5 (amended): while the stream is read, the placeholder shows the concatenation of
\* the chunk texts handled so far, each character once and in order, as soon as one
\* non-empty chunk has been handled; until then app-chat.js shows the caption of the
\* typing indicator and part_005 no text.
C5_ShownIsConcatenationOnceStarted ==
    streamPhase = "reading" =>
        ShownText = IF applied = <<>> THEN IndicatorText ELSE applied

\* C5 witness: chunk("Hel"), chunk("lo") were handled and "Hello" is shown.
C5_Witness ==
    /\ streamPhase = "reading" /\ wire = <<>> /\ finalJson
    /\ applied = <<"H", "e", "l", "l", "o">> /\ ShownText = applied

(* ---------------- reveal renderer: SpecWriter ---------------- *)
Task(el, n, pl, g) ==
    [target |-> el, len |-> n, pos |-> 0, plain |-> pl, gen |-> g, state |-> "running",
     completed |-> 0, cancelled |-> FALSE]

WriterCur == [activeAnimations |-> activeAnimations, tasks |-> tasks, content |-> content]

WriterCommit(W) ==
    /\ activeAnimations' = W.activeAnimations /\ tasks' = W.tasks /\ content' = W.content
    /\ UNCHANGED <<authVars, streamVars, auxVars>>

\* writePlain / writeMarkdown throws: `catch` logs, `finally` deletes the id.
rejectTask(W, id) ==
    [W EXCEPT !.tasks[id].state = "resolved", !.activeAnimations = @ \ {id}]

\* The promise of writePlain / writeMarkdown resolves: `if (onComplete) onComplete()`,
\* then `finally` deletes the id. `cancelled` records whether the id had been removed
\* before.
resolveTask(W, id) ==
    [W EXCEPT !.tasks[id].state = "resolved",
              !.tasks[id].completed = @ + 1,
              !.tasks[id].cancelled = id \notin W.activeAnimations,
              !.activeAnimations = @ \ {id}]

\* writeChar of writePlain: `element.textContent += text[index++]` replaces the
\* element's children by one text node.
writePlainChar(W, id) ==
    LET t == W.tasks[id] IN
    IF id \notin W.activeAnimations THEN resolveTask(W, id)
    ELSE IF t.pos < t.len
         THEN [W EXCEPT !.content[t.target] = [gen |-> @.gen + 1,
                                               text |-> Append(@.text, id)],
                        !.tasks[id].pos = @ + 1]
         ELSE resolveTask(W, id)

\* writeChar of animateTextNode: the character goes to the task's own text node,
\* which shows in the element only while that node is still its child.
animateTextNode(W, id) ==
    LET t == W.tasks[id] IN
    IF id \notin W.activeAnimations \/ t.pos >= t.len THEN resolveTask(W, id)
    ELSE [W EXCEPT !.content[t.target].text =
                       IF W.content[t.target].gen = t.gen THEN Append(@, id) ELSE @,
                   !.tasks[id].pos = @ + 1]

writeChar(W, id) ==
    IF W.tasks[id].plain THEN writePlainChar(W, id) ELSE animateTextNode(W, id)

\* writeText up to its first suspension: the id is registered, the element emptied
\* and the first writeChar runs. In app-chat.js streamHTML throws on its first text
\* node (Text has no setAttribute), so a markdown reveal of a non-empty text ends there.
writeText(W, el, n, pl) ==
    LET id == Len(W.tasks) + 1
        g  == W.content[el].gen + 1
        A  == [W EXCEPT !.activeAnimations = @ \cup {id},
                        !.tasks = Append(@, Task(el, n, pl, g)),
                        !.content[el] = [gen |-> g, text |-> <<>>]]
    IN  IF ~pl /\ chat = "app-chat" /\ n > 0 THEN rejectTask(A, id)
        ELSE IF ~pl /\ n = 0 THEN resolveTask(A, id)
        ELSE writeChar(A, id)

WriteText(el, n, pl) ==
    /\ Len(tasks) < MaxTasks
    /\ WriterCommit(writeText(WriterCur, el, n, pl))

\* A setTimeout(writeChar, speed) of task id fires.
WriterTick(id) ==
    /\ id \in DOMAIN tasks /\ tasks[id].state = "running"
    /\ WriterCommit(writeChar(WriterCur, id))

\* StreamingWriter.stopAll()
StopAll ==
    /\ activeAnimations # {}
    /\ WriterCommit([WriterCur EXCEPT !.activeAnimations = {}])

WriterInit ==
    /\ impl = 2 /\ sharedView = FALSE
    /\ serverUser = NoUser
    /\ chat \in {"app-chat", "part_006"}
    /\ AuxIdle /\ PageAtLoad /\ ChatIdle /\ StreamIdle /\ WriterIdle

WriterNext ==
    \/ \E el \in Targets, n \in 0..MaxLen, pl \in BOOLEAN : WriteText(el, n, pl)
    \/ \E id \in 1..MaxTasks : WriterTick(id)
    \/ StopAll

SpecWriter == WriterInit /\ [][WriterNext]_vars

(* ---------------- reveal claim (SpecWriter) ---------------- *)
\* The tasks that are not cancelled and still append to element el.
Appending(el) ==
    {id \in activeAnimations :
        /\ tasks[id].state = "running" /\ tasks[id].target = el
        /\ tasks[id].plain \/ tasks[id].gen = content[el].gen}

\* C6: at any time at most one non-cancelled render task is appending to a given
\* target element.
C6_OneTaskPerTarget ==
    \A el \in Targets : Cardinality(Appending(el)) <= 1

(* ---------------- start-up restore: SpecRestore ---------------- *)
\* Times the user stays away between leaving the page and loading it again:
\* 0, 59 min, 1 h - 1 ms, 1 h, 1 h + 1 ms, 61 min, 24 h - 1 ms, 24 h.
Aways == {0, 3540000, BackupMaxAge - 1, BackupMaxAge, BackupMaxAge + 1, 3660000,
          SessionMaxAge - 1, SessionMaxAge}

RestoreInit ==
    /\ impl \in {1, 2} /\ sharedView = FALSE
    /\ serverUser \in RenderedUsers
    /\ chat = "app-chat"
    /\ AuxIdle /\ PageAtLoad /\ ChatIdle /\ StreamIdle /\ WriterIdle

RestoreNext ==
    \/ Boot
    \/ InitCheck
    \/ StartNewThread
    \/ PageError
    \/ Logout
    \/ \E ok \in BOOLEAN : LogoutResponse(ok)
    \/ \E u \in RenderedUsers, away \in Aways : Leave(u, away)

SpecRestore == RestoreInit /\ [][RestoreNext]_vars

(* ---------------- restore claim (SpecRestore) ---------------- *)
\* The page that is booting found a backup in the store; its age in ms.
BackupAge == now - storeBackup[1].ts

\* The boot took the backup over: the thread of the earlier page load is current again.
RestoredByBoot == threadId' = storeBackup[1].thread

\* What the boot would leave had the store held no backup.
BootWithoutBackup == authInit([Cur EXCEPT !.storeBackup = <<>>])

\* C10 (as stated): at start-up the backup is restored iff it is not older than 1 hour
\* (stale iff now - capturedAt > 1 hour).
C10_RestoredIffNotOlderThanHour ==
    [][(Boot /\ storeBackup # <<>> /\ storeBackup[1].user # <<>>)
         => (RestoredByBoot <=> BackupAge <= BackupMaxAge)]_vars

\* C10 (amended): restoreState (impl 1) restores iff now - capturedAt < 1 hour, and
\* restoreSession (impl 2) iff the backup holds a user and now - capturedAt < 24 hours;
\* a restored backup puts its thread and user back, and a discarded one leaves the
\* session exactly as a boot without any backup.
C10_RestoredIffYoungerThanLimit ==
    [][(Boot /\ storeBackup # <<>>) =>
          LET b == storeBackup[1]
              fresh == IF impl = 1 THEN BackupAge < 3600000
                       ELSE b.user # <<>> /\ BackupAge < 86400000
              X == BootWithoutBackup
          IN  IF fresh
              THEN /\ RestoredByBoot
                   /\ b.user # <<>> => serverUser' = b.user[1]
                   /\ impl = 1 => failures' = b.failures
              ELSE /\ ~RestoredByBoot
                   /\ <<serverUser', threadId', failures', timer', storeUser'>>
                        = <<X.serverUser, X.threadId, X.failures, X.timer, X.storeUser>>
                   /\ <<inputDisabled', sendDisabled', initCheckPending'>>
                        = <<X.inputDisabled, X.sendDisabled, X.initCheckPending>>]_vars

\* C10 witness: impl 1 booted 59 minutes after the backup was taken and restored its
\* user and thread although the server rendered the page signed out.
C10_Witness ==
    /\ impl = 1 /\ ev = "boot" /\ storeBackup # <<>>
    /\ now - storeBackup[1].ts = 3540000
    /\ threadId = storeBackup[1].thread /\ threadId # generateThreadId(loads, 0)
    /\ serverUser.auth

(* ---------------- session claims (SpecAuth) ---------------- *)
\* The context is in the Authenticated state: checkAuthentication() returns true.
Authenticated ==
    booted /\ serverUser.auth /\ Truthy(serverUser.name) /\ Truthy(serverUser.email)

\* C1: in part_004 (impl 1 and 2) at most one verification round is in flight at a
\* time in a context, whatever the interleaving of ticks, forced checks and responses.
C1_AtMostOneRoundInFlight ==
    impl \in {1, 2} => InFlightCount(inflight) <= 1

\* C2: whenever AuthManager.isAuthenticated() is true (part_004), the held identity's
\* id, name and email are all non-empty.
C2_AuthenticatedHasFullIdentity ==
    (booted /\ ~initCheckPending /\ impl \in {1, 2} /\ isAuthenticated(Cur))
        => Truthy(serverUser.id) /\ Truthy(serverUser.name) /\ Truthy(serverUser.email)

\* C7: a round that returns HTTP 401 while the context is Authenticated drops the held
\* identity, disables the input affordances and stops the periodic verification.
C7_ExpiredSessionDemotes ==
    [][(Authenticated /\ ev' = "resp:401")
         => (~serverUser'.auth /\ inputDisabled' /\ sendDisabled' /\ timer' = 0)]_vars

\* C8: a round that fails transiently (network error, timeout, non-2xx other than 401)
\* leaves the held identity, the input affordances, the periodic timer and the stored
\* identity and backup as they were.
C8_TransientFailureFrame ==
    [][(ev' \in {"resp:5xx", "resp:timeout", "resp:error"})
         => UNCHANGED <<serverUser, inputDisabled, sendDisabled, timer,
                        storeUser, storeBackup>>]_vars

\* C8 witness: a 5xx answer was handled while authenticated, the timer running, the
\* input enabled and an identity stored.
C8_Witness ==
    /\ ev = "resp:5xx" /\ impl \in {1, 2} /\ Authenticated
    /\ timer # 0 /\ ~inputDisabled /\ storeUser # <<>>

\* The result r is an authenticated 2xx answer received while the held record is
\* authenticated, and this step is performAuthCheck handling it.
AuthenticatedResult(r) ==
    r.kind = "ok" /\ r.data.auth /\ serverUser.auth /\ AuthResponse(r)

\* C9 (as stated): the identity-swap side effects (profile refresh, stored identity and
\* backup rewrite) happen exactly once for a result whose id differs from the held one
\* and not at all for a result with the same id.
C9_SwapEffectsOnlyOnNewId ==
    [][\A r \in Results :
          (/\ AuthenticatedResult(r) /\ Authenticated
           /\ Truthy(serverUser.id) /\ Truthy(r.data.id) /\ Truthy(r.data.email)) =>
          LET n == IF r.data.id # serverUser.id THEN 1 ELSE 0 IN
          /\ fx'.profile = n
          /\ fx'.store = n
          /\ impl = 2 => fx'.backup = n]_vars

\* C9 (amended): the displayed identity is refreshed exactly once iff the held id and
\* the result's id are both non-empty and differ; the stored identity (and, in impl 2,
\* the backup) is rewritten once more for that swap and once for every authenticated
\* result carrying an email, the same id included.
C9_SwapAndRefreshEffects ==
    [][\A r \in Results : AuthenticatedResult(r) =>
          LET swap == IF /\ Truthy(serverUser.id) /\ Truthy(r.data.id)
                         /\ serverUser.id # r.data.id THEN 1 ELSE 0
              mail == IF Truthy(r.data.email) THEN 1 ELSE 0 IN
          /\ fx'.profile = swap
          /\ fx'.store = swap + mail
          /\ fx'.backup = IF impl = 2 THEN swap + mail ELSE 0]_vars

\* C9 witness: an authenticated result for another id was handled: one profile refresh
\* and two writes of the stored identity.
C9_Witness ==
    ev = "resp:auth" /\ fx.profile = 1 /\ fx.store = 2 /\ fx.toast = ""

(* ---------------- retry executor: SpecRetry ---------------- *)
\* The delays callers pass: the default (1000) and performAuthCheck's (2000).
BaseDelays == {1000, 2000}

RetryFns == {"retryFunction", "retryRequest"}

\* The loop counter's first value: `attempt = 0` / `attempt = 1`.
firstAttempt(f) == IF f = "retryFunction" THEN 0 ELSE 1

\* The loop condition: `attempt < maxRetries` / `attempt <= maxRetries`.
loopCondition(R) ==
    IF R.fn = "retryFunction" THEN R.attempt < R.max ELSE R.attempt <= R.max

\* `attempt === maxRetries - 1` / `attempt === maxRetries`
isLastAttempt(R) ==
    IF R.fn = "retryFunction" THEN R.attempt = R.max - 1 ELSE R.attempt = R.max

\* A backoff that would start at twice the base delay.
backoffFromTwice(R) == R.base * 2^(R.attempt + 1)

\* `baseDelay * Math.pow(2, attempt)` / `delay * attempt`, attempt being the one
\* that has just failed.
backoff(R) ==
    IF R.fn = "retryFunction" THEN R.base * 2^R.attempt ELSE R.base * R.attempt

\* One evaluation of the for-loop's head: fn is invoked, or the loop is left and
\* the function returns undefined.
retryLoop(R) ==
    IF loopCondition(R)
    THEN [R EXCEPT !.calls = @ + 1, !.phase = "calling"]
    ELSE [R EXCEPT !.phase = "returned"]

retryStart(f, m, b) ==
    retryLoop([RetryIdle EXCEPT !.fn = f, !.max = m, !.base = b,
                                !.attempt = firstAttempt(f)])

\* `return await fn()` with fn fulfilled: the value of this call is returned.
onFulfilled(R) == [R EXCEPT !.phase = "returned", !.returned = R.calls]

\* The catch clause: the last attempt's error is rethrown, any other is followed
\* by a setTimeout of the backoff delay.
onRejected(R) ==
    IF isLastAttempt(R)
    THEN [R EXCEPT !.phase = "thrown", !.thrown = R.calls]
    ELSE [R EXCEPT !.phase = "waiting", !.waits = Append(@, backoff(R))]

\* The backoff timer fires: attempt++ and the loop head again.
onBackoffElapsed(R) == retryLoop([R EXCEPT !.attempt = @ + 1])

RetryCommit(R, e) ==
    /\ retry' = R
    /\ AuxStep(e)
    /\ UNCHANGED <<scroll, decoder, channel, rawStore, streak, inbound, stale, tabs>>

\* A caller invokes the executor with a request function.
RetryStart(f, m, b) ==
    /\ retry.phase = "idle"
    /\ RetryCommit(retryStart(f, m, b), "retry:start")

\* The request function settles; a fetch made while navigator.onLine is false rejects.
RetrySettle(ok) ==
    /\ retry.phase = "calling"
    /\ ok => online
    /\ RetryCommit(IF ok THEN onFulfilled(retry) ELSE onRejected(retry),
                   IF ok THEN "retry:fulfilled" ELSE "retry:rejected")

RetryTimer ==
    /\ retry.phase = "waiting"
    /\ RetryCommit(onBackoffElapsed(retry), "retry:timer")

RetryInit ==
    /\ impl = 1 /\ sharedView = FALSE
    /\ serverUser = NoUser
    /\ chat = "app-chat"
    /\ AuxIdle /\ PageAtLoad /\ ChatIdle /\ StreamIdle /\ WriterIdle

RetryNext ==
    \/ Boot
    \/ GoOnline
    \/ GoOffline
    \/ \E f \in RetryFns, m \in 0..MaxAttempts, b \in BaseDelays : RetryStart(f, m, b)
    \/ \E ok \in BOOLEAN : RetrySettle(ok)
    \/ RetryTimer

SpecRetry == RetryInit /\ [][RetryNext]_vars

(* ---------------- retry claims (SpecRetry) ---------------- *)
\* C11: when the connectivity monitor reports offline, an attempt's failure ends the
\* executor at once: the failure is thrown to the caller, no backoff is waited and no
\* further attempt is made.
C11_OfflineFailsAtOnce ==
    [][(retry.phase = "calling" /\ ~online /\ retry' # retry)
         => (retry'.phase = "thrown" /\ retry'.waits = retry.waits)]_vars

\* C12 (as stated): fn is invoked at most maxAttempts times, the executor stops at the
\* first success, the wait before attempt n (0-indexed) is baseDelayMs * 2^n, and the
\* final attempt's failure is thrown with no further wait.
C12_WaitIsBaseTimesTwoToN ==
    /\ retry.calls <= retry.max
    /\ \A n \in DOMAIN retry.waits : retry.waits[n] = retry.base * 2^n
    /\ retry.phase = "thrown" => retry.thrown = retry.max /\ Len(retry.waits) = retry.max - 1

\* C12 (amended): fn is invoked at most maxAttempts times; the executor stops at the
\* first success and returns that call's value; the wait that precedes attempt n
\* (0-indexed, n >= 1) is baseDelayMs * 2^(n-1) in retryFunction and delay * n in
\* retryRequest; the final attempt's failure is thrown with no further wait; with
\* maxAttempts = 0 fn is never invoked and undefined is returned.
C12_WaitIsBaseTimesTwoToNMinusOne ==
    /\ retry.calls <= retry.max
    /\ \A n \in DOMAIN retry.waits :
          retry.waits[n] = IF retry.fn = "retryFunction" THEN retry.base * 2^(n - 1)
                           ELSE retry.base * n
    /\ retry.phase \in {"calling", "returned", "thrown"} /\ retry.calls > 0
          => Len(retry.waits) = retry.calls - 1
    /\ retry.phase = "waiting" => Len(retry.waits) = retry.calls /\ retry.calls < retry.max
    /\ retry.phase = "thrown" => retry.thrown = retry.max /\ retry.calls = retry.max
    /\ retry.phase = "returned" =>
          IF retry.max = 0 THEN retry.calls = 0 /\ retry.returned = 0
          ELSE retry.returned = retry.calls /\ retry.calls >= 1

\* C12 witness: retryFunction(fn, 3, 2000) failed three times, waited 2000 and 4000 ms
\* and threw the third failure.
C12_Witness ==
    /\ retry.fn = "retryFunction" /\ retry.max = 3 /\ retry.base = 2000
    /\ retry.phase = "thrown" /\ retry.thrown = 3
    /\ retry.waits = <<2000, 4000>>

(* ---------------- scroll-follow controller: SpecScroll ---------------- *)
\* Scroll offsets: multiples of half the threshold (0, 50, 100, ... px).
Offsets == {k * (ScrollThreshold \div 2) : k \in 0..MaxScreens}

\* `documentHeight - (scrollTop + windowHeight)`; height holds
\* documentHeight - windowHeight, the largest scrollTop.
distanceFromBottom(C) == C.height - C.top

isNearBottom(C) == distanceFromBottom(C) < ScrollThreshold

\* A window 'scroll' (or, in app-chat.js, 'resize') event: the debounced callback
\* is (re)armed.
onScrollEvent(C) == [C EXCEPT !.debounce = TRUE]

\* window.scrollTo({top: scrollHeight}); a scroll event follows iff the offset moves.
scrollTo(C, y) ==
    IF C.top = y THEN C ELSE onScrollEvent([C EXCEPT !.top = y])

\* A scrollToBottom that would not look at autoScrollEnabled.
scrollToBottomAlways(C, force) ==
    [scrollTo(C, C.height) EXCEPT !.autoScrollEnabled = TRUE]

scrollToBottom(C, force) ==
    IF force \/ C.autoScrollEnabled
    THEN [scrollTo(C, C.height) EXCEPT !.autoScrollEnabled = TRUE]
    ELSE C

\* setTimeout(() => this.scrollToBottom(), 50) while autoScrollEnabled.
onNewContent(C) ==
    IF C.autoScrollEnabled THEN [C EXCEPT !.pending = @ + 1] ELSE C

updateScrollButton(C) == [C EXCEPT !.buttonVisible = ~isNearBottom(C)]

updateAutoScrollState(C) == [C EXCEPT !.autoScrollEnabled = isNearBottom(C)]

debouncedUpdate(C) ==
    updateAutoScrollState(updateScrollButton([C EXCEPT !.debounce = FALSE]))

ScrollCommit(C, e) ==
    /\ scroll' = C
    /\ AuxStep(e)
    /\ UNCHANGED <<retry, decoder, channel, rawStore, streak, inbound, stale, tabs>>

\* The renderer appends content of height h and notifies the controller.
ContentAppended(h) ==
    /\ h > 0 /\ scroll.height + h \in Offsets
    /\ scroll.autoScrollEnabled => scroll.pending < MaxPending
    /\ ScrollCommit(onNewContent([scroll EXCEPT !.height = @ + h]), "scroll:content")

\* A timer of onNewContent fires.
FollowTimer ==
    /\ scroll.pending > 0
    /\ ScrollCommit(scrollToBottom([scroll EXCEPT !.pending = @ - 1], FALSE),
                    "scroll:timer")

\* The user scrolls the page to offset y.
UserScroll(y) ==
    /\ y \in Offsets /\ y <= scroll.height /\ y # scroll.top
    /\ ScrollCommit([scrollTo(scroll, y) EXCEPT !.userWentUp = y < scroll.top],
                    "scroll:user")

\* The window is resized (only app-chat.js listens).
WindowResize ==
    /\ chat = "app-chat" /\ ~scroll.debounce
    /\ ScrollCommit(onScrollEvent(scroll), "scroll:resize")

\* 100 ms after the last scroll event. scrolledUp records that the user's scroll went
\* up, that this recomputation found the viewport farther from the bottom than the
\* threshold and turned autoScrollEnabled off, and that no
\* jump to the latest content has been made since.
DebounceElapsed ==
    /\ scroll.debounce
    /\ ScrollCommit([debouncedUpdate(scroll) EXCEPT
                        !.scrolledUp = @ \/ (/\ scroll.userWentUp /\ ~isNearBottom(scroll)
                                             /\ distanceFromBottom(scroll) > ScrollThreshold)],
                    "scroll:debounce")

\* The jump-to-latest button is clicked: scrollToBottom(true).
JumpToLatest ==
    /\ scroll.buttonVisible
    /\ ScrollCommit([scrollToBottom(scroll, TRUE) EXCEPT !.scrolledUp = FALSE,
                                                         !.userWentUp = FALSE],
                    "scroll:jump")

\* part_006, SharedChat.displaySharedMessages: following is switched off while the
\* messages of a shared conversation are rendered ...
SharedReplayStart ==
    /\ chat = "part_006" /\ ~scroll.replaying
    /\ ScrollCommit([scroll EXCEPT !.autoScrollEnabled = FALSE, !.replaying = TRUE],
                    "scroll:replay")

\* ... and switched on again behind the last one, with a forced scroll.
SharedReplayEnd ==
    /\ chat = "part_006" /\ scroll.replaying
    /\ ScrollCommit(scrollToBottom([scroll EXCEPT !.autoScrollEnabled = TRUE,
                                                  !.replaying = FALSE,
                                                  !.scrolledUp = FALSE,
                                                  !.userWentUp = FALSE], TRUE),
                    "scroll:replayend")

ScrollInit ==
    /\ impl = 2 /\ sharedView = FALSE
    /\ serverUser = NoUser
    /\ chat \in {"app-chat", "part_005", "part_006"}
    /\ AuxIdle /\ PageAtLoad /\ ChatIdle /\ StreamIdle /\ WriterIdle

ScrollNext ==
    \/ \E h \in Offsets : ContentAppended(h)
    \/ FollowTimer
    \/ \E y \in Offsets : UserScroll(y)
    \/ WindowResize
    \/ DebounceElapsed
    \/ JumpToLatest
    \/ SharedReplayStart
    \/ SharedReplayEnd

SpecScroll == ScrollInit /\ [][ScrollNext]_vars

(* ---------------- scroll claim (SpecScroll) ---------------- *)
\* The step is a content append or a scroll that an append scheduled.
AppendStep == ev' \in {"scroll:content", "scroll:timer"}

Alphabet == {"\n", "e:", "d:", "x"}

\* String.prototype.split on a separator of n line feeds, scanning from index i.
RECURSIVE splitFrom(_, _, _, _)
splitFrom(str, n, i, piece) ==
    IF i > Len(str) THEN <<piece>>
    ELSE IF i + n - 1 <= Len(str) /\ \A k \in 0..(n - 1) : str[i + k] = "\n"
         THEN <<piece>> \o splitFrom(str, n, i + n, <<>>)
         ELSE splitFrom(str, n, i + 1, Append(piece, str[i]))

split(str, n) == splitFrom(str, n, 1, <<>>)

\* String.prototype.trim
RECURSIVE trimStart(_)
trimStart(str) ==
    IF str # <<>> /\ Head(str) \in {"\n", " "} THEN trimStart(Tail(str)) ELSE str

RECURSIVE trimEnd(_)
trimEnd(str) ==
    IF str # <<>> /\ str[Len(str)] \in {"\n", " "}
    THEN trimEnd(SubSeq(str, 1, Len(str) - 1)) ELSE str

trim(str) == trimEnd(trimStart(str))

\* The for-loop of parseSSEEvent over the record's lines.
RECURSIVE parseLines(_, _, _)
parseLines(lines, eventName, data) ==
    IF lines = <<>> THEN [name |-> eventName, data |-> data]
    ELSE LET line == Head(lines) IN
         IF line # <<>> /\ Head(line) = "e:"
         THEN parseLines(Tail(lines), trim(Tail(line)), data)
         ELSE IF line # <<>> /\ Head(line) = "d:"
              THEN parseLines(Tail(lines), eventName, data \o trim(Tail(line)))
              ELSE parseLines(Tail(lines), eventName, data)

\* parseSSEEvent: <<>> stands for null (a record without data).
parseSSEEvent(eventString) ==
    LET e == parseLines(split(eventString, 1), <<"message">>, <<>>)
    IN  IF e.data # <<>> THEN <<e>> ELSE <<>>

RECURSIVE parseAll(_)
parseAll(events) ==
    IF events = <<>> THEN <<>>
    ELSE parseSSEEvent(Head(events)) \o parseAll(Tail(events))

\* A decoder that would forget the incomplete trailing text of a read.
forgetRemainder(pieces) == <<>>

\* `buffer = events.pop() || ''`
remainder(pieces) == pieces[Len(pieces)]

\* One pass of the read loop: buffer += decode(value); split; keep the last piece.
onRead(D, value) ==
    LET buf    == D.buffer \o value
        pieces == split(buf, 2)
    IN  [D EXCEPT !.received = @ \o value,
                  !.buffer   = remainder(pieces),
                  !.emitted  = @ \o parseAll(SubSeq(pieces, 1, Len(pieces) - 1))]

DecoderCommit(D, e) ==
    /\ decoder' = D
    /\ AuxStep(e)
    /\ UNCHANGED <<retry, scroll, channel, rawStore, streak, inbound, stale, tabs>>

\* reader.read() resolves with the next characters of the body.
DecoderRead(value) ==
    /\ ~decoder.done
    /\ Len(decoder.received) + Len(value) <= MaxBytes
    /\ DecoderCommit(onRead(decoder, value), "decoder:read")

\* reader.read() resolves with done: the loop is left, the buffer is not looked at.
DecoderDone ==
    /\ ~decoder.done
    /\ DecoderCommit([decoder EXCEPT !.done = TRUE], "decoder:done")

DecoderInit ==
    /\ impl = 2 /\ sharedView = FALSE
    /\ serverUser = NoUser
    /\ chat = "app-chat"
    /\ AuxIdle /\ PageAtLoad /\ ChatIdle /\ StreamIdle /\ WriterIdle

DecoderNext ==
    \/ \E value \in SeqsUpTo(Alphabet, MaxRead) \ {<<>>} : DecoderRead(value)
    \/ DecoderDone

SpecDecoder == DecoderInit /\ [][DecoderNext]_vars

(* ---------------- decoder claim (SpecDecoder) ---------------- *)
\* What the decoder emits and keeps when the same characters arrive in one read.
Unsplit == onRead(DecoderIdle, decoder.received)

\* C14: however the body is split into reads, the events emitted are those of the
\* unsplit body; a record is emitted only once its blank line has arrived, and the
\* incomplete trailing text is carried over and never emitted.
C14_SplitInvariant ==
    /\ decoder.emitted = Unsplit.emitted
    /\ decoder.buffer = Unsplit.buffer
    /\ \A i \in 1..Len(decoder.buffer) - 1 :
          ~(decoder.buffer[i] = "\n" /\ decoder.buffer[i + 1] = "\n")
    /\ Len(decoder.emitted) < Len(split(decoder.received, 2))

\* C14 witness: a record with an event line and a data line was emitted once its blank
\* line had arrived, and the beginning of the next record is held back in the buffer.
C14_Witness ==
    /\ decoder.emitted = <<[name |-> <<"x">>, data |-> <<"x">>]>>
    /\ decoder.buffer = <<"d:">>
    /\ decoder.received = <<"e:", "x", "\n", "d:", "x", "\n", "\n", "d:">>
    /\ ev = "decoder:read"

(* ---------------- cross-context notifier: SpecNotifier ---------------- *)
\* The browser queues a 'storage' event for every other open context of the origin.
storageEvent(H, from) ==
    [H EXCEPT !.ctx = [c \in Contexts |->
                          IF c # from /\ H.ctx[c].open
                          THEN [H.ctx[c] EXCEPT !.inbox = @ + 1]
                          ELSE H.ctx[c]]]

\* localStorage.setItem('auth_change', String(Date.now())) in context `from`.
setItem(H, from, value) == storageEvent([H EXCEPT !.key = <<value>>], from)

\* A notifier that would leave the sentinel in the store.
keepItem(H, from) == H

\* localStorage.removeItem('auth_change'): an event is queued iff the key existed.
removeItem(H, from) ==
    IF H.key = <<>> THEN H ELSE storageEvent([H EXCEPT !.key = <<>>], from)

\* AuthManager.notifyAuthChange()
notifyAuthChange(H, from, t) == removeItem(setItem(H, from, t), from)

\* The call is on record: its caller, and that every context open now was listening
\* when it was made.
calledBy(H, from) ==
    [H EXCEPT !.caller = from,
              !.ctx = [c \in Contexts |-> [H.ctx[c] EXCEPT !.sinceCall = FALSE]]]

\* The 'storage' listener: `if (e.key === 'auth_change') setTimeout(reload, 1000)`.
onStorage(H, c) ==
    [H EXCEPT !.ctx[c].inbox = @ - 1, !.ctx[c].reloadTimers = @ + 1]

ChannelCommit(H, e) ==
    /\ channel' = H
    /\ AuxStep(e)
    /\ UNCHANGED <<retry, scroll, decoder, rawStore, streak, inbound, stale, tabs>>

\* A context's performAuthCheck saw the authentication status change.
Announce(c) ==
    /\ channel.ctx[c].open
    /\ \A d \in Contexts \ {c} :
          channel.ctx[d].inbox + channel.ctx[d].reloadTimers + 2 <= MaxInbox
    /\ ChannelCommit(calledBy(notifyAuthChange(channel, c, now), c), "channel:announce")

\* The browser dispatches a queued storage event to context c.
DispatchStorage(c) ==
    /\ channel.ctx[c].open /\ channel.ctx[c].inbox > 0
    /\ ChannelCommit(onStorage(channel, c), "channel:storage")

\* A reload timer fires: location.reload() replaces the document; what was queued
\* for the old one is gone, and the new page registers its listener.
ReloadTimer(c) ==
    /\ channel.ctx[c].open /\ channel.ctx[c].reloadTimers > 0
    /\ ChannelCommit([channel EXCEPT !.ctx[c] = ListeningContext], "channel:reload")

\* A tab is opened and its page runs setupEventListeners.
OpenContext(c) ==
    /\ ~channel.ctx[c].open
    /\ ChannelCommit([channel EXCEPT !.ctx[c] = ListeningContext], "channel:open")

CloseContext(c) ==
    /\ channel.ctx[c].open
    /\ ChannelCommit([channel EXCEPT !.ctx[c] = ClosedContext], "channel:close")

NotifierInit ==
    /\ impl = 3 /\ sharedView = FALSE
    /\ serverUser = NoUser
    /\ chat = "app-chat"
    /\ AuxIdle /\ PageAtLoad /\ ChatIdle /\ StreamIdle /\ WriterIdle

NotifierNext ==
    \E c \in Contexts :
        \/ Announce(c)
        \/ DispatchStorage(c)
        \/ ReloadTimer(c)
        \/ OpenContext(c)
        \/ CloseContext(c)

SpecNotifier == NotifierInit /\ [][NotifierNext]_vars

JsValues == {"object", "null", "undefined", "circular"}

\* Strings found under a key: '', serialized values, and text that is not JSON.
ItemStrings == {"", "{\"id\":1}", "null", "undefined", "{bad"}

StorageModes == {"ok", "quota", "disabled"}

Returned(v)  == [value |-> v, threw |-> FALSE]
Thrown(name) == [value |-> name, threw |-> TRUE]

\* JSON.stringify: undefined for undefined, a TypeError for a circular structure.
JSONstringify(v) ==
    CASE v = "object"    -> Returned("{\"id\":1}")
      [] v = "null"      -> Returned("null")
      [] v = "undefined" -> Returned("undefined")
      [] v = "circular"  -> Thrown("TypeError")

\* JSON.parse: a SyntaxError for anything that is not JSON text.
JSONparse(str) ==
    CASE str = "{\"id\":1}" -> Returned("object")
      [] str = "null"       -> Returned("null")
      [] OTHER              -> Thrown("SyntaxError")

\* A facade whose catch clause would rethrow.
rethrow(H, r, fallback) == [H EXCEPT !.last.ret = r.value, !.last.threw = r.threw]

\* try { ... return r } catch (error) { console.warn(...); return fallback }
tryCatch(H, r, fallback) ==
    [H EXCEPT !.last.ret = IF r.threw THEN fallback ELSE r.value, !.last.threw = FALSE]

called(H, op, key, def) ==
    [H EXCEPT !.last = [op |-> op, key |-> key, default |-> def, ret |-> "", threw |-> FALSE]]

\* StorageManager.get(key, defaultValue)
get(H, key, def) ==
    LET C == called(H, "get", key, def)
        item == H.items[key]
        r == IF H.mode = "disabled" THEN Thrown("SecurityError")
             ELSE IF item = NoItem \/ item = <<"">> THEN Returned(def)
             ELSE JSONparse(item[1])
    IN  tryCatch(C, r, def)

\* StorageManager.set(key, value)
set(H, key, value) ==
    LET C == called(H, "set", key, "")
        str == JSONstringify(value)
        r == IF str.threw THEN str
             ELSE IF H.mode = "disabled" THEN Thrown("SecurityError")
             ELSE IF H.mode = "quota" THEN Thrown("QuotaExceededError")
             ELSE Returned("true")
        W == IF r.threw THEN C ELSE [C EXCEPT !.items[key] = <<str.value>>]
    IN  tryCatch(W, r, "false")

\* StorageManager.remove(key)
remove(H, key) ==
    LET C == called(H, "remove", key, "")
        r == IF H.mode = "disabled" THEN Thrown("SecurityError") ELSE Returned("true")
        W == IF r.threw THEN C ELSE [C EXCEPT !.items[key] = NoItem]
    IN  tryCatch(W, r, "false")

\* StorageManager.clear(): removeItem for every key of this.keys.
clear(H) ==
    LET C == called(H, "clear", "", "")
        r == IF H.mode = "disabled" THEN Thrown("SecurityError") ELSE Returned("true")
        W == IF r.threw THEN C ELSE [C EXCEPT !.items = [k \in StorageKeys |-> NoItem]]
    IN  tryCatch(W, r, "false")

StoreCommit(H, e) ==
    /\ rawStore' = H
    /\ AuxStep(e)
    /\ UNCHANGED <<retry, scroll, decoder, channel, streak, inbound, stale, tabs>>

StorageGet(key, def)   == StoreCommit(get(rawStore, key, def), "store:get")
StorageSet(key, value) == StoreCommit(set(rawStore, key, value), "store:set")
StorageRemove(key)     == StoreCommit(remove(rawStore, key), "store:remove")
StorageClearAll        == StoreCommit(clear(rawStore), "store:clear")

\* The quota fills up, the user disables storage, or storage works again.
StorageMode(m) ==
    /\ m # rawStore.mode
    /\ StoreCommit([rawStore EXCEPT !.mode = m], "store:mode")

\* Another script or an earlier version of the page writes a string under a key.
ForeignWrite(key, str) ==
    /\ rawStore.mode = "ok" /\ rawStore.items[key] # <<str>>
    /\ StoreCommit([rawStore EXCEPT !.items[key] = <<str>>], "store:foreign")

StorageInit ==
    /\ impl \in {1, 2} /\ sharedView = FALSE
    /\ serverUser = NoUser
    /\ chat = "app-chat"
    /\ AuxIdle /\ PageAtLoad /\ ChatIdle /\ StreamIdle /\ WriterIdle

StorageNext ==
    \/ \E k \in StorageKeys, def \in {"null", "fallback"} : StorageGet(k, def)
    \/ \E k \in StorageKeys, v \in JsValues : StorageSet(k, v)
    \/ \E k \in StorageKeys : StorageRemove(k)
    \/ StorageClearAll
    \/ \E m \in StorageModes : StorageMode(m)
    \/ \E k \in StorageKeys, str \in ItemStrings : ForeignWrite(k, str)

SpecStorage == StorageInit /\ [][StorageNext]_vars

(* ---------------- storage claim (SpecStorage) ---------------- *)
\* The string under the key is not a serialized record.
Malformed(item) == item # NoItem /\ item[1] \notin {"{\"id\":1}", "null"}

\* C16: get, set, remove and clear never propagate an exception; when the store
\* faults, set, remove and clear return false and get returns the caller's default;
\* a malformed stored record is read as absent: get returns the default.
C16_FaultsBecomeDefaults ==
    /\ [](~rawStore.last.threw)
    /\ [][LET last == rawStore'.last
              faulty(op) == \/ rawStore.mode = "disabled"
                            \/ op = "set" /\ rawStore.mode = "quota"
          IN  /\ (ev' \in {"store:set", "store:remove", "store:clear"} /\ faulty(last.op))
                    => last.ret = "false" /\ rawStore'.items = rawStore.items
              /\ (ev' = "store:get" /\ (faulty("get") \/ rawStore.items[last.key] = NoItem
                                        \/ Malformed(rawStore.items[last.key])))
                    => last.ret = last.default
              /\ ev' = "store:get" => rawStore'.items = rawStore.items]_vars

\* C16 witness: get('dsa_user_data', fallback) found text that is not JSON under the
\* key and returned the fallback.
C16_Witness ==
    /\ ev = "store:get" /\ rawStore.mode = "ok"
    /\ rawStore.items["dsa_user_data"] = <<"{bad">>
    /\ rawStore.last.key = "dsa_user_data" /\ rawStore.last.default = "fallback"
    /\ rawStore.last.ret = "fallback" /\ ~rawStore.last.threw

(* ---------------- session and store over page loads: SpecSession ---------------- *)
\* The user comes back at once, or an hour later.
Returns == {0, BackupMaxAge}

SessionInit ==
    /\ impl \in {1, 2} /\ sharedView = FALSE
    /\ serverUser \in RenderedUsers
    /\ chat = "app-chat"
    /\ AuxIdle /\ PageAtLoad /\ ChatIdle /\ StreamIdle /\ WriterIdle

SessionNext ==
    \/ Boot
    \/ InitCheck
    \/ PeriodicTick
    \/ ManualCheckAuth
    \/ \E r \in Results : AuthResponse(r)
    \/ Logout
    \/ \E ok \in BOOLEAN : LogoutResponse(ok)
    \/ \E u \in RenderedUsers, away \in Returns : Leave(u, away)

SpecSession == SessionInit /\ [][SessionNext]_vars

(* ---------------- store claim (SpecSession) ---------------- *)
\* The persistent store holds an identity: under dsa_user_data or in the backup.
StoreHoldsIdentity ==
    \/ storeUser # <<>>
    \/ storeBackup # <<>> /\ storeBackup[1].user # <<>>

\* C17: when the context enters Unauthenticated (a verification reports
\* unauthenticated, a 401, or a logout), the store afterwards holds neither the stored
\* identity nor a backup carrying an identity.
C17_UnauthenticatedClearsStore ==
    [][(/\ ev' \in {"resp:unauth", "resp:401", "logout"}
        /\ serverUser.auth /\ ~serverUser'.auth)
          => ~StoreHoldsIdentity']_vars


(* ================= periodic verification timer ================= *)
\* C18: a periodic verification timer (AppState.authCheckInterval) is scheduled only
\* while the session state is Authenticated, after any sequence of session
\* transitions, connectivity changes and visibility changes.
C18_TimerOnlyWhileAuthenticated == timer # 0 => SessionState = "Authenticated"


\* The period the adaptive schedule prescribes for the context as it is now.
PrescribedInterval == IF online /\ ~hidden THEN ActiveInterval ELSE IdleInterval

\* C19: whenever a periodic verification timer of an AuthManager of part_004 is
\* active, its period is 2 minutes if the context is currently online and in the
\* foreground and 5 minutes otherwise, following every later change of connectivity
\* or visibility.
C19_PeriodFollowsContext == (impl \in {1, 2} /\ timer # 0) => timer = PrescribedInterval


(* ================= failure notices: SpecFailures ================= *)
\* One page load of an AuthManager of part_004: verification rounds are issued and
\* settle in any order, page errors are raised between them. `streak` records how many
\* non-timeout verification failures have settled since the last 2xx answer; a
\* timeout leaves it alone and a page error is no verification at all.
NoticeText == "Authentication check failed"
FailureTags == {"resp:401", "resp:5xx", "resp:error"}

nextStreak(n, r) ==
    IF r.kind = "ok" THEN 0
    ELSE IF r.kind = "throw" /\ r.err = "AbortError" THEN n
    ELSE n + 1

\* A round settles with outcome r.
VerificationOutcome(r) ==
    /\ booted /\ inflight > 0
    /\ Counts(r) => (failures < MaxStreak /\ streak < MaxStreak)
    /\ Assign(authCheckOutcome([Cur EXCEPT !.inflight = @ - 1], r), ER(r))
    /\ streak' = nextStreak(streak, r)
    /\ UNCHANGED <<retry, scroll, decoder, channel, rawStore, inbound, stale, tabs>>

\* impl 1: the global 'error' / 'unhandledrejection' listeners.
PageFault ==
    /\ booted /\ impl = 1 /\ failures < MaxStreak
    /\ Commit([Cur EXCEPT !.failures = @ + 1], E("error"))

FailuresInit ==
    /\ impl \in {1, 2} /\ sharedView = FALSE
    /\ serverUser \in RenderedUsers
    /\ chat = "app-chat"
    /\ AuxIdle /\ PageAtLoad /\ ChatIdle /\ StreamIdle /\ WriterIdle

FailuresNext ==
    \/ Boot
    \/ InitCheck
    \/ PeriodicTick
    \/ ManualCheckAuth
    \/ \E r \in Results : VerificationOutcome(r)
    \/ PageFault

SpecFailures == FailuresInit /\ [][FailuresNext]_vars

\* C20: in the first AuthManager of part_004, a verification failure that is not a
\* timeout shows the 'Authentication check failed' notice exactly when it is the third
\* of its run of consecutive failures: not for the first two, not for the fourth and
\* later ones, and timeouts and page errors do not count towards the three.
C20_OneNoticeAtThirdFailure ==
    [][(impl = 1 /\ ev' \in FailureTags)
          => (fx'.toast = NoticeText <=> streak' = 3)]_vars


\* C21: every verification round that completes successfully (a 2xx response, whatever
\* authentication status it reports) resets sessionMetrics.authFailures to 0.
C21_SuccessResetsFailures ==
    [][ev' \in {"resp:auth", "resp:unauth"} => failures' = 0]_vars


(* ================= records of one response: SpecRecords ================= *)
\* The `data:` payloads a record can carry, and JSON.parse of each: <<>> when it throws.
Payloads == {"{\"text\":\"a\"}", "{\"thread_id\":\"t7\"}", "{}", "oops"}

parseData(d) ==
    CASE d = "{\"text\":\"a\"}"       -> <<[text |-> "a", thread_id |-> ""]>>
      [] d = "{\"thread_id\":\"t7\"}" -> <<[text |-> "",  thread_id |-> "t7"]>>
      [] d = "{}"                     -> <<[text |-> "",  thread_id |-> ""]>>
      [] OTHER                        -> <<>>

RecordNames == {"chunk", "meta", "final_json", "error"}
Records == [name : RecordNames, data : Payloads]

\* One iteration of `for (const eventString of events)`: the switch on event.name.
\* part_005 has no 'error' case.
handleRecord(B, e) ==
    LET parsed == parseData(e.data) IN
    CASE e.name = "chunk" ->
           IF parsed = <<>> THEN [B EXCEPT !.surface = Append(@, e.data)]
           ELSE IF parsed[1].text # "" THEN [B EXCEPT !.surface = Append(@, parsed[1].text)]
           ELSE B
      [] e.name = "final_json" ->
           IF parsed = <<>> THEN B ELSE [B EXCEPT !.finalJson = parsed]
      [] e.name = "meta" ->
           IF parsed # <<>> /\ parsed[1].thread_id # ""
           THEN [B EXCEPT !.threadId = parsed[1].thread_id] ELSE B
      [] OTHER ->
           IF chat = "app-chat" THEN [B EXCEPT !.phase = "failed"] ELSE B

\* A final_json record that parsed, or an error record, has been decoded.
Terminal(e) ==
    \/ e.name = "error"
    \/ e.name = "final_json" /\ parseData(e.data) # <<>>

InboundCommit(B, e) ==
    /\ inbound' = B
    /\ AuxStep(e)
    /\ UNCHANGED <<retry, scroll, decoder, channel, rawStore, streak, stale, tabs>>

\* handleStreamingResponse is entered with a response whose body holds the records w.
InboundOpen(w) ==
    /\ inbound.phase = "idle"
    /\ InboundCommit([inbound EXCEPT !.wire = w, !.phase = "reading"], "sse:open")

\* The next record of the body is handled.
InboundRecord ==
    /\ inbound.phase = "reading" /\ inbound.wire # <<>>
    /\ LET e == Head(inbound.wire) IN
       InboundCommit([handleRecord([inbound EXCEPT !.wire = Tail(@)], e)
                         EXCEPT !.terminated = @ \/ Terminal(e)], "sse:record")

\* reader.read() resolves with done; the final render follows a final_json.
InboundDone ==
    /\ inbound.phase = "reading" /\ inbound.wire = <<>>
    /\ InboundCommit([inbound EXCEPT !.phase = IF inbound.finalJson # <<>>
                                                THEN "rendering" ELSE "ended"],
                     "sse:done")

RecordsInit ==
    /\ impl = 2 /\ sharedView = FALSE
    /\ serverUser = NoUser
    /\ chat \in {"app-chat", "part_005"}
    /\ AuxIdle /\ PageAtLoad /\ ChatIdle /\ StreamIdle /\ WriterIdle

RecordsNext ==
    \/ \E w \in SeqsUpTo(Records, MaxRecords) : InboundOpen(w)
    \/ InboundRecord
    \/ InboundDone

SpecRecords == RecordsInit /\ [][RecordsNext]_vars

\* C22: within one message's stream, once a final_json or an error event has been
\* decoded, no later event of that stream is applied to the target surface or to the
\* current thread id.
C22_NothingAppliedAfterTerminal ==
    [][(inbound.terminated /\ ev' = "sse:record")
          => (/\ inbound'.surface = inbound.surface
              /\ inbound'.threadId = inbound.threadId)]_vars


\* C23: if the data payload of a chunk, meta or final_json record fails to parse, the
\* decoder surfaces an Error and terminates the stream early: the record's handling
\* ends the stream as failed and renders nothing of the unparsed payload.
C23_ParseFailureTerminates ==
    [][(/\ ev' = "sse:record"
        /\ inbound.wire # <<>>
        /\ Head(inbound.wire).name \in {"chunk", "meta", "final_json"}
        /\ parseData(Head(inbound.wire).data) = <<>>)
          => (/\ inbound'.phase = "failed"
              /\ inbound'.surface = inbound.surface)]_vars


(* ---------------- completion callback (SpecWriter) ---------------- *)
\* C24: for every call of StreamingWriter.writeText with an onComplete callback,
\* onComplete is invoked at most once, and only if the task revealed its whole text
\* without being cancelled.
C24_CompleteOnceUnlessCancelled ==
    \A id \in DOMAIN tasks :
        /\ tasks[id].completed <= 1
        /\ tasks[id].completed = 1 => (~tasks[id].cancelled /\ tasks[id].pos = tasks[id].len)


(* ---------------- jump-to-latest button (SpecScroll) ---------------- *)
\* C25: in every reachable state the jump-to-latest button is visible exactly when
\* ScrollManager.autoScrollEnabled is false, including right after the button is
\* activated and while SharedChat.displaySharedMessages sets autoScrollEnabled directly.
C25_ButtonIffNotFollowing == scroll.buttonVisible <=> ~scroll.autoScrollEnabled


(* ---------------- cross-context signal (SpecAuth) ---------------- *)
\* C26: on a cross-context session-changed signal (the storage-change handler) the
\* receiving context never moves to Authenticated on the basis of the signal or of the
\* value found in the shared store alone.
C26_SignalNeverAuthenticates ==
    [][ev' = "storage" => ~(~serverUser.auth /\ serverUser'.auth)]_vars


(* ================= logout and late responses: SpecLogout ================= *)
\* One page load of an AuthManager of part_004: rounds are issued, the user logs out,
\* and the rounds settle in any order. `stale` counts the rounds in flight that were
\* issued before the last logout took effect locally.

\* impl 2: logout() clears the local state at once.
LogoutNow ==
    /\ booted /\ impl = 2
    /\ Assign(logoutLocal(Cur), E("logout"))
    /\ stale' = inflight
    /\ UNCHANGED <<retry, scroll, decoder, channel, rawStore, streak, inbound, tabs>>

\* impl 1: logout() posts to /auth/logout ...
LogoutRequested == impl = 1 /\ Logout

\* ... and clears the local state when the answer is 2xx.
LogoutAnswered(ok) ==
    /\ booted /\ impl = 1 /\ logoutInFlight
    /\ LET S == [Cur EXCEPT !.logoutInFlight = FALSE] IN
       IF ok THEN Assign(showToast(logoutLocal(S), "Logged out successfully"), E("logout"))
       ELSE Assign(showToast(S, "Logout failed"), E("logoutfail"))
    /\ stale' = IF ok THEN inflight ELSE stale
    /\ UNCHANGED <<retry, scroll, decoder, channel, rawStore, streak, inbound, tabs>>

\* A round settles with outcome r; old: it was issued before the last logout.
RoundSettles(r, old) ==
    /\ booted /\ inflight > 0
    /\ IF old THEN stale > 0 ELSE inflight > stale
    /\ Counts(r) => failures < MaxFailures
    /\ Assign(authCheckOutcome([Cur EXCEPT !.inflight = @ - 1], r), ER(r))
    /\ stale' = IF old THEN stale - 1 ELSE stale
    /\ UNCHANGED <<retry, scroll, decoder, channel, rawStore, streak, inbound, tabs>>

LogoutInit ==
    /\ impl \in {1, 2} /\ sharedView = FALSE
    /\ serverUser = User(TRUE, "u1", "n", "e")
    /\ chat = "app-chat"
    /\ AuxIdle /\ PageAtLoad /\ ChatIdle /\ StreamIdle /\ WriterIdle

LogoutNext ==
    \/ Boot
    \/ InitCheck
    \/ PeriodicTick
    \/ ManualCheckAuth
    \/ LogoutNow
    \/ LogoutRequested
    \/ \E ok \in BOOLEAN : LogoutAnswered(ok)
    \/ \E r \in Results, old \in BOOLEAN : RoundSettles(r, old)

SpecLogout == LogoutInit /\ [][LogoutNext]_vars

\* C27: after an explicit logout has put the context in Unauthenticated, the response
\* of a verification round that was issued before the logout cannot move the context
\* back to Authenticated.
C27_StaleResponseCannotAuthenticate ==
    [][(stale' < stale /\ ~serverUser.auth) => ~serverUser'.auth]_vars


(* ================= two contexts, one store: SpecTabs ================= *)
\* Each context runs the same AuthManager of part_004 over its own AppState; both see
\* one localStorage. A write of dsa_user_data that changes its value raises a
\* 'storage' event in the other context. `left` names the context that last entered
\* Unauthenticated by logout or 401 while both were Authenticated.
OtherTab(t) == CHOOSE o \in Tabs : o # t

\* The context t as its AuthManager sees it.
TabCur(t) == [Cur EXCEPT !.booted = TRUE, !.serverUser = tabs.user[t],
                         !.storeUser = tabs.store, !.storeBackup = tabs.backup]

\* The handler's result S is written back; the other context is notified if
\* dsa_user_data changed.
tabResult(T, t, S) ==
    [T EXCEPT !.user[t] = S.serverUser,
              !.store = S.storeUser,
              !.backup = S.storeBackup,
              !.inbox[OtherTab(t)] =
                  IF S.storeUser # T.store /\ T.open[OtherTab(t)] THEN @ + 1 ELSE @]

TabsCommit(T, e) ==
    /\ tabs' = T
    /\ AuxStep(e)
    /\ UNCHANGED <<retry, scroll, decoder, channel, rawStore, streak, inbound, stale>>

\* window.SERVER_USER as the server can render it for a context.
TabUsers == {NoUser, User(TRUE, "u1", "n", "e"), User(TRUE, "u2", "n", "e")}

BothOpen == \A t \in Tabs : tabs.open[t]

\* t leaves the session: is the other context Authenticated at that moment?
Leaves(t) == IF tabs.user[OtherTab(t)].auth THEN t ELSE ""

\* Would the handler's write overflow the other context's queue of events?
TabCanNotify(t) == tabs.inbox[OtherTab(t)] < MaxInbox

\* The page is loaded (or loaded again) in context t, rendered with SERVER_USER = u.
TabOpens(t, u) ==
    /\ tabs.inbox[t] = 0 /\ TabCanNotify(t)
    /\ LET S == checkAuthentication([TabCur(t) EXCEPT !.serverUser = u])
       IN  TabsCommit([tabResult(tabs, t, S) EXCEPT !.open[t] = TRUE, !.left = ""],
                      "tab:open")

\* Context t logs out (the local part of logout()).
TabLogsOut(t) ==
    /\ BothOpen /\ tabs.user[t].auth /\ TabCanNotify(t)
    /\ TabsCommit([tabResult(tabs, t, logoutLocal(TabCur(t))) EXCEPT !.left = Leaves(t)],
                  "tab:logout")

\* A verification round of context t is answered 401.
TabSessionExpires(t) ==
    /\ BothOpen /\ tabs.user[t].auth /\ TabCanNotify(t)
    /\ TabsCommit([tabResult(tabs, t, onHttpError(TabCur(t), Http(401)))
                      EXCEPT !.left = Leaves(t)], "tab:401")

\* The 'storage' listener of context t runs handleAuthChange.
TabStorageEvent(t) ==
    /\ tabs.open[t] /\ tabs.inbox[t] > 0 /\ TabCanNotify(t)
    /\ TabsCommit(tabResult([tabs EXCEPT !.inbox[t] = @ - 1], t,
                            handleAuthChange(TabCur(t))), "tab:storage")

TabsInit ==
    /\ impl \in {1, 2} /\ sharedView = FALSE
    /\ serverUser = NoUser
    /\ chat = "app-chat"
    /\ AuxIdle /\ PageAtLoad /\ ChatIdle /\ StreamIdle /\ WriterIdle

TabsNext ==
    \E t \in Tabs : \/ \E u \in TabUsers : TabOpens(t, u)
                    \/ TabLogsOut(t)
                    \/ TabSessionExpires(t)
                    \/ TabStorageEvent(t)

SpecTabs == TabsInit /\ [][TabsNext]_vars

\* C28: after one of two contexts has entered Unauthenticated by logout or 401 and
\* every resulting storage-change event has been delivered and handled, the stored
\* identity is still absent and that context is still Unauthenticated.
C28_LogoutSurvivesDelivery ==
    (tabs.left # "" /\ \A t \in Tabs : tabs.inbox[t] = 0)
        => (tabs.store = <<>> /\ ~tabs.user[tabs.left].auth)


(* ================= rounds end: SpecRounds ================= *)
\* One page load of an AuthManager of part_004 with its timers and its connectivity
\* listeners. Every
\* fetch of a round is aborted after 15 s and retryFunction makes at most 3 attempts,
\* so a round in flight eventually settles: weak fairness on the settling step.
RoundsInit ==
    /\ impl \in {1, 2} /\ sharedView = FALSE
    /\ serverUser \in RenderedUsers
    /\ chat = "app-chat"
    /\ AuxIdle /\ PageAtLoad /\ ChatIdle /\ StreamIdle /\ WriterIdle

RoundSettled == \E r \in Results : AuthResponse(r)

RoundsNext ==
    \/ Boot
    \/ InitCheck
    \/ PeriodicTick
    \/ GoOnline
    \/ ForcedTimer
    \/ GoOffline
    \/ ManualCheckAuth
    \/ RoundSettled

SpecRounds == RoundsInit /\ [][RoundsNext]_vars /\ WF_vars(RoundSettled)

====
